---- MODULE Spec2Model ----
(***************************************************************************)
(* A model of the sports-activity dashboards of this repository:          *)
(*   src/dashboard.py   - tabular (CSV/XLSX) dashboard                     *)
(*   src/LeesMoreFit.py - FIT multi-upload dashboard                       *)
(*                                                                         *)
(* Values of the Python program are records of one shape,                  *)
(*   [k |-> kind, s |-> text, n |-> integer, e |-> integer]                *)
(* with kind "str" (a string, s its characters), "num" (the decimal number *)
(* n * 10^-e, normalised), "nan" (float NaN, the missing value of a column *)
(* read from a file), "NA" (pd.NA), "ts" (a timestamp, n its day number),  *)
(* "nat" (pd.NaT) and "raise" (an exception, s its class name).            *)
(* A text is a sequence of one-character strings.                          *)
(***************************************************************************)
EXTENDS Integers, Sequences, FiniteSets, TLC

VARIABLES
    cpc,        \* position of the codec specification
    cin,        \* its input
    cmid,       \* the first function's result
    cout,       \* the second function's result
    ppc,        \* position of the process specification
    p_raw,      \* the caller's raw frame (the argument df)
    p_mapping,  \* the argument column_mapping_user
    p_out1,     \* outcome of the first call
    p_out2,     \* outcome of the second call
    p_filter,   \* the date inputs and the result of the date-range filter
    uploaded_file,        \* the value of st.file_uploader
    ss_raw_df,               \* st.session_state.raw_df
    ss_processed_df,         \* st.session_state.processed_df
    ss_filtered_df,          \* st.session_state.filtered_df
    ss_column_mapping_user,  \* st.session_state.column_mapping_user
    ss_last_uploaded_file,   \* st.session_state.last_uploaded_file
    messages,             \* the notices the last run showed
    exception,            \* the exception that ended the last run, or ""
    next_id,              \* the file id the uploader gives the next upload
    apc,        \* position of the analysis specification
    a_df,       \* the processed dataset
    a_side,     \* the filter inputs and the outcome of the sidebar's filters
    a_agg,      \* the period chosen and the aggregation table
    fpc,              \* position of the FIT specifications
    f_files,          \* the value of the FIT uploader: the files selected
    f_fit_df,         \* st.session_state.fit_df
    f_fit_dfs_list,   \* st.session_state.fit_dfs_list
    f_messages,       \* the notices the last run showed
    f_exception,      \* the exception that ended the last run, or ""
    f_parsed,         \* the outcomes of the last run's calls of parse_fit_file
    f_kpi,            \* the figures of the overview
    f_cache,          \* st.cache_data: the files whose parse result is stored
    f_executed,       \* the files whose parse body ran in the last run
    f_same_selection  \* the last run had the selection of the run before it

codecVars == <<cpc, cin, cmid, cout>>
procVars == <<ppc, p_raw, p_mapping, p_out1, p_out2, p_filter>>
sessionVars ==
    <<uploaded_file, ss_raw_df, ss_processed_df, ss_filtered_df, ss_column_mapping_user,
      ss_last_uploaded_file, messages, exception, next_id>>
analysisVars == <<apc, a_df, a_side, a_agg>>
fitVars ==
    <<fpc, f_files, f_fit_df, f_fit_dfs_list, f_messages, f_exception, f_parsed, f_kpi,
      f_cache, f_executed, f_same_selection>>
\* what st.cache_data holds and what the last run did with it
cacheVars == <<f_cache, f_executed, f_same_selection>>
vars == <<codecVars, procVars, sessionVars, analysisVars, fitVars>>

(***************************************************************************)
(* Bounds of the model.                                                    *)
(***************************************************************************)
MaxParts == 4       \* a duration text has at most this many ':'-separated parts
MaxRows == 3        \* a raw table has at most this many rows
MaxUploads == 3     \* a session sees at most this many uploads
MaxActivities == 3  \* an analysed dataset has at most this many activities
MaxRecords == 3     \* a FIT file has at most this many record messages
MaxSessions == 2    \* and at most this many session messages
MaxFiles == 2       \* the uploader holds at most this many files

(***************************************************************************)
(* Python values.                                                          *)
(***************************************************************************)
Val(k, s, n, e) == [k |-> k, s |-> s, n |-> n, e |-> e]
Str(s) == Val("str", s, 0, 0)
NaN == Val("nan", <<>>, 0, 0)
NA == Val("NA", <<>>, 0, 0)
NaT == Val("nat", <<>>, 0, 0)
Raise(name) == Val("raise", <<name>>, 0, 0)
NoValue == Val("none", <<>>, 0, 0)

RECURSIVE Norm(_, _)
\* the decimal number n * 10^-e with trailing zeros of the fraction removed
Norm(n, e) ==
    IF e > 0 /\ n % 10 = 0 THEN Norm(n \div 10, e - 1) ELSE Val("num", <<>>, n, e)
Num(n) == Val("num", <<>>, n, 0)

RECURSIVE Pow10(_)
Pow10(e) == IF e = 0 THEN 1 ELSE 10 * Pow10(e - 1)

\* pd.isna(x) for a scalar
isna(x) == x.k \in {"nan", "NA", "nat"}

Digits == <<"0", "1", "2", "3", "4", "5", "6", "7", "8", "9">>
IsDigit(c) == \E i \in 1..10 : Digits[i] = c
DigitVal(c) == (CHOOSE i \in 1..10 : Digits[i] = c) - 1
DigitChar(d) == Digits[d + 1]
Whitespace == {" ", "nbsp", "tab"}

RECURSIVE NatToStr(_)
NatToStr(n) ==
    IF n < 10 THEN <<DigitChar(n)>> ELSE NatToStr(n \div 10) \o <<DigitChar(n % 10)>>
\* str(n) of a Python int
IntToStr(n) == IF n < 0 THEN <<"-">> \o NatToStr(-n) ELSE NatToStr(n)

RECURSIVE ZeroFill(_, _)
ZeroFill(t, w) == IF Len(t) >= w THEN t ELSE ZeroFill(<<"0">> \o t, w)
\* f"{n:02d}": the sign counts towards the width, the zeros follow the sign
Format02d(n) ==
    IF n < 0 THEN <<"-">> \o ZeroFill(NatToStr(-n), 1) ELSE ZeroFill(NatToStr(n), 2)

\* str(x): ints without a fraction, other decimals with all their digits
PyStr(x) ==
    CASE x.k = "str" -> x.s
      [] x.k = "num" ->
            IF x.e = 0 THEN IntToStr(x.n)
            ELSE LET a == IF x.n < 0 THEN -x.n ELSE x.n
                     p == Pow10(x.e)
                 IN (IF x.n < 0 THEN <<"-">> ELSE <<>>) \o NatToStr(a \div p)
                      \o <<".">> \o ZeroFill(NatToStr(a % p), x.e)
      [] x.k = "nan" -> <<"n", "a", "n">>
      [] x.k = "NA" -> <<"<", "N", "A", ">">>
      [] x.k = "nat" -> <<"N", "a", "T">>
      [] OTHER -> <<"?">>

RECURSIVE Split(_, _)
\* text.split(sep): always at least one field
Split(t, sep) ==
    IF \E i \in 1..Len(t) : t[i] = sep
    THEN LET i == CHOOSE j \in 1..Len(t) : t[j] = sep /\ \A m \in 1..(j - 1) : t[m] # sep
         IN <<SubSeq(t, 1, i - 1)>> \o Split(SubSeq(t, i + 1, Len(t)), sep)
    ELSE <<t>>

RECURSIVE LStrip(_)
LStrip(t) == IF t # <<>> /\ Head(t) \in Whitespace THEN LStrip(Tail(t)) ELSE t
RECURSIVE RStrip(_)
RStrip(t) ==
    IF t # <<>> /\ t[Len(t)] \in Whitespace THEN RStrip(SubSeq(t, 1, Len(t) - 1)) ELSE t
\* text.strip(): '\xa0' is whitespace to Python
PyStrip(t) == RStrip(LStrip(t))

RECURSIVE Horner(_, _)
Horner(ds, acc) ==
    IF ds = <<>> THEN acc ELSE Horner(Tail(ds), 10 * acc + DigitVal(Head(ds)))

\* int(text): blanks stripped, an optional sign, then digits only;
\* anything else is a ValueError
PyIntOfStr(t) ==
    LET u == PyStrip(t)
        signed == u # <<>> /\ Head(u) \in {"-", "+"}
        body == IF signed THEN Tail(u) ELSE u
        sgn == IF signed /\ Head(u) = "-" THEN -1 ELSE 1
    IN IF body # <<>> /\ \A i \in 1..Len(body) : IsDigit(body[i])
       THEN Num(sgn * Horner(body, 0))
       ELSE Raise("ValueError")

\* float(text): blanks stripped, an optional sign, digits with at most one
\* '.', at least one digit; "nan" is the float NaN; anything else is a
\* ValueError.  (Exponents, "inf" and '_' use characters no text of the
\* model holds.)
PyFloatOfStr(t) ==
    LET u == PyStrip(t)
        signed == u # <<>> /\ Head(u) \in {"-", "+"}
        body == IF signed THEN Tail(u) ELSE u
        sgn == IF signed /\ Head(u) = "-" THEN -1 ELSE 1
        dots == {i \in 1..Len(body) : body[i] = "."}
        ds == SelectSeq(body, IsDigit)
        frac == IF dots = {} THEN 0 ELSE Len(body) - (CHOOSE i \in dots : TRUE)
    IN IF body = <<"n", "a", "n">> THEN NaN
       ELSE IF /\ ds # <<>>
               /\ Cardinality(dots) <= 1
               /\ \A i \in 1..Len(body) : IsDigit(body[i]) \/ body[i] = "."
            THEN Norm(sgn * Horner(ds, 0), frac)
            ELSE Raise("ValueError")

\* float(x) of any value
PyFloat(x) ==
    CASE x.k = "str" -> PyFloatOfStr(x.s)
      [] x.k = "num" -> x
      [] x.k = "nan" -> NaN
      [] OTHER -> Raise("TypeError")

\* int(x) of a number: truncation towards zero
PyInt(x) ==
    IF x.n >= 0 THEN x.n \div Pow10(x.e) ELSE -((-x.n) \div Pow10(x.e))

(***************************************************************************)
(* The duration codec.                                                     *)
(***************************************************************************)
\* mutant: hours wrapped at 24
format_duration_wrap24(seconds) ==
    IF isna(seconds) \/ seconds.n = 0 THEN Str(<<"0", "0", ":", "0", "0", ":", "0", "0">>)
    ELSE LET secs == PyInt(seconds)
         IN Str(Format02d((secs \div 3600) % 24) \o <<":">>
                  \o Format02d((secs % 3600) \div 60) \o <<":">> \o Format02d(secs % 60))

\* format_duration(seconds): "HH:MM:SS"
format_duration(seconds) ==
    IF isna(seconds) \/ seconds.n = 0 THEN Str(<<"0", "0", ":", "0", "0", ":", "0", "0">>)
    ELSE LET secs == PyInt(seconds)
             hours == secs \div 3600
             minutes == (secs % 3600) \div 60
             s == secs % 60
         IN Str(Format02d(hours) \o <<":">> \o Format02d(minutes) \o <<":">> \o Format02d(s))

\* the body of the try block of parse_time_to_seconds
ParseTimeTry(time_str) ==
    LET parts == Split(PyStr(time_str), ":")
        I(i) == PyIntOfStr(parts[i])
    IN IF Len(parts) = 3
       THEN IF \E i \in 1..3 : I(i).k = "raise" THEN Raise("ValueError")
            ELSE Num(I(1).n * 3600 + I(2).n * 60 + I(3).n)
       ELSE IF Len(parts) = 2
       THEN IF \E i \in 1..2 : I(i).k = "raise" THEN Raise("ValueError")
            ELSE Num(I(1).n * 60 + I(2).n)
       ELSE PyFloat(time_str)

\* mutant: two parts read as hours and minutes
parse_time_hm(time_str) ==
    IF isna(time_str) THEN Num(0)
    ELSE LET parts == Split(PyStr(time_str), ":")
             r == IF Len(parts) = 2 /\ PyIntOfStr(parts[1]).k = "num"
                                    /\ PyIntOfStr(parts[2]).k = "num"
                  THEN Num(PyIntOfStr(parts[1]).n * 3600 + PyIntOfStr(parts[2]).n * 60)
                  ELSE ParseTimeTry(time_str)
         IN IF r.k = "raise" THEN Num(0) ELSE r

\* parse_time_to_seconds(time_str)
parse_time_to_seconds(time_str) ==
    IF isna(time_str) THEN Num(0)
    ELSE LET r == ParseTimeTry(time_str)
         IN IF r.k = "raise" /\ r.s \in {<<"ValueError">>, <<"TypeError">>}
            THEN Num(0)
            ELSE r

(***************************************************************************)
(* Calendar arithmetic on day numbers (days since 1970-01-01).             *)
(***************************************************************************)
IsLeap(y) == (y % 4 = 0 /\ y % 100 # 0) \/ y % 400 = 0
DaysInMonth(y, m) ==
    IF m = 2 THEN (IF IsLeap(y) THEN 29 ELSE 28)
    ELSE IF m \in {4, 6, 9, 11} THEN 30 ELSE 31

DaysFromCivil(y, m, d) ==
    LET yy == IF m <= 2 THEN y - 1 ELSE y
        era == yy \div 400
        yoe == yy - era * 400
        mp == IF m > 2 THEN m - 3 ELSE m + 9
        doy == (153 * mp + 2) \div 5 + d - 1
        doe == yoe * 365 + yoe \div 4 - yoe \div 100 + doy
    IN era * 146097 + doe - 719468

CivilFromDays(z0) ==
    LET z == z0 + 719468
        era == z \div 146097
        doe == z - era * 146097
        yoe == (doe - doe \div 1460 + doe \div 36524 - doe \div 146096) \div 365
        doy == doe - (365 * yoe + yoe \div 4 - yoe \div 100)
        mp == (5 * doy + 2) \div 153
        d == doy - (153 * mp + 2) \div 5 + 1
        m == IF mp < 10 THEN mp + 3 ELSE mp - 9
        y == yoe + era * 400 + (IF m <= 2 THEN 1 ELSE 0)
    IN [y |-> y, m |-> m, d |-> d]

Ts(day) == Val("ts", <<>>, day, 0)
\* Timestamp.weekday(): Monday is 0
Weekday(day) == (day + 3) % 7
\* strftime('%Y-%W'): weeks start on Monday, the days before the year's
\* first Monday are week 00
StrfYearWeek(day) ==
    LET c == CivilFromDays(day)
        yday == day - DaysFromCivil(c.y, 1, 1)
        w == (yday + 7 - Weekday(day)) \div 7
    IN Str(ZeroFill(NatToStr(c.y), 4) \o <<"-">> \o ZeroFill(NatToStr(w), 2))
\* strftime('%Y-%m')
StrfYearMonth(day) ==
    LET c == CivilFromDays(day)
    IN Str(ZeroFill(NatToStr(c.y), 4) \o <<"-">> \o ZeroFill(NatToStr(c.m), 2))

\* pd.to_datetime(x, errors='coerce') of one cell of a column whose texts
\* are ISO dates (YYYY-MM-DD) or no dates at all: a valid calendar date is a
\* timestamp at midnight, anything else NaT
ToDatetimeCoerce(x) ==
    IF x.k = "ts" THEN x
    ELSE IF x.k # "str" THEN NaT
    ELSE LET p == Split(PyStrip(x.s), "-")
             okShape == /\ Len(p) = 3
                        /\ Len(p[1]) = 4 /\ Len(p[2]) = 2 /\ Len(p[3]) = 2
                        /\ \A i \in 1..3 : \A j \in 1..Len(p[i]) : IsDigit(p[i][j])
             y == Horner(p[1], 0)
             m == Horner(p[2], 0)
             d == Horner(p[3], 0)
         IN IF okShape /\ y >= 1 /\ m \in 1..12 /\ d \in 1..DaysInMonth(y, m)
            THEN Ts(DaysFromCivil(y, m, d))
            ELSE NaT

(***************************************************************************)
(* Data frames: cols is the sequence of column names, rows the sequence of *)
(* rows, each with its index label idx and its cells, one per column.      *)
(* A column name is a text; the internal names are one-atom texts.         *)
(***************************************************************************)
EmptyFrame == [cols |-> <<>>, rows |-> <<>>]
\* DataFrame.empty: an axis of length 0
DfEmpty(df) == df.cols = <<>> \/ df.rows = <<>>
HasCol(df, name) == \E i \in 1..Len(df.cols) : df.cols[i] = name
ColPos(df, name) ==
    CHOOSE i \in 1..Len(df.cols) : df.cols[i] = name /\ \A j \in 1..(i - 1) : df.cols[j] # name
Cell(df, row, name) == row.cells[ColPos(df, name)]

\* df[name] = F(row) for every row: a new column is appended, an existing
\* one overwritten
SetColumn(df, name, F(_)) ==
    IF HasCol(df, name)
    THEN [df EXCEPT !.rows =
            [i \in 1..Len(df.rows) |->
                [df.rows[i] EXCEPT !.cells[ColPos(df, name)] = F(df.rows[i])]]]
    ELSE [cols |-> Append(df.cols, name),
          rows |-> [i \in 1..Len(df.rows) |->
                      [df.rows[i] EXCEPT !.cells = Append(df.rows[i].cells, F(df.rows[i]))]]]

RECURSIVE RemoveAtom(_, _)
\* text.replace(a, ''), a one atom
RemoveAtom(t, a) ==
    IF t = <<>> THEN <<>>
    ELSE IF Head(t) = a THEN RemoveAtom(Tail(t), a)
    ELSE <<Head(t)>> \o RemoveAtom(Tail(t), a)

RECURSIVE RemovePair(_, _, _)
\* text.replace(ab, ''), ab two atoms
RemovePair(t, a, b) ==
    IF Len(t) < 2 THEN t
    ELSE IF t[1] = a /\ t[2] = b THEN RemovePair(Tail(Tail(t)), a, b)
    ELSE <<Head(t)>> \o RemovePair(Tail(t), a, b)

\* mutant: artefacts removed, blanks at the ends kept
CleanHeaderNoStrip(col) == RemoveAtom(RemovePair(col, "A^", "(R)"), "nbsp")

\* columns.str.strip().str.replace('A^(R)', '').str.replace('\xa0', '')
CleanHeader(col) == RemoveAtom(RemovePair(PyStrip(col), "A^", "(R)"), "nbsp")

N(name) == <<name>>
\* all_expected_columns: the order in which the mapping is filled and read
all_expected_columns ==
    << "date", "activity_type", "distance_km", "calories_kcal", "duration_raw",
       "avg_heart_rate_bpm", "steps", "title", "avg_pace_raw", "max_heart_rate_bpm",
       "total_elevation_gain_m" >>
required_columns ==
    { "date", "activity_type", "distance_km", "calories_kcal", "duration_raw",
      "avg_heart_rate_bpm", "steps" }

RECURSIVE MapLoop(_, _, _, _)
\* the loop over column_mapping_user.items(): a resolved entry goes to
\* rename_dict (a later entry for the same source column replaces an earlier
\* one), an unresolved one adds the placeholder column of pd.NA
MapLoop(df, rename_dict, mapping, i) ==
    IF i > Len(all_expected_columns) THEN [df |-> df, rename_dict |-> rename_dict]
    ELSE LET internal_name == all_expected_columns[i]
             user_col_name == mapping[internal_name]
         IN IF user_col_name # <<>> /\ HasCol(df, user_col_name)
            THEN MapLoop(df,
                         [c \in DOMAIN rename_dict \cup {user_col_name} |->
                             IF c = user_col_name THEN N(internal_name) ELSE rename_dict[c]],
                         mapping, i + 1)
            ELSE MapLoop(SetColumn(df, N(internal_name), LAMBDA r : NA),
                         rename_dict, mapping, i + 1)

\* df.rename(columns=rename_dict), on the outcome of the mapping loop
RenameColumns(looped) ==
    [looped.df EXCEPT !.cols = [i \in 1..Len(looped.df.cols) |->
        IF looped.df.cols[i] \in DOMAIN looped.rename_dict
        THEN looped.rename_dict[looped.df.cols[i]]
        ELSE looped.df.cols[i]]]

\* the column names cleaned, in all columns
CleanColumns(df) == [df EXCEPT !.cols = [i \in 1..Len(df.cols) |-> CleanHeader(df.cols[i])]]

\* df.dropna(subset=[name]): the rows keep their index labels
DropNa(df, name) ==
    LET p == ColPos(df, name)
        Keep(r) == ~isna(r.cells[p])
    IN [df EXCEPT !.rows = SelectSeq(df.rows, Keep)]

\* text.replace(',', '.')
CommaToDot(t) == [i \in 1..Len(t) |-> IF t[i] = "," THEN "." ELSE t[i]]

\* mutant: the comma is dropped instead of read as the decimal point
DistanceCellNoComma(x) == PyFloatOfStr(RemoveAtom(PyStr(x), ","))

\* one cell through astype(str).str.replace(',', '.').astype(float): a
\* number, NaN (for "nan") or the ValueError astype(float) raises.
\* astype(str) renders NaN as "nan" and pd.NA as "<NA>" (pandas 2).
DistanceCell(x) == PyFloatOfStr(CommaToDot(PyStr(x)))

\* fillna(0)
FillNa0(x) == IF isna(x) THEN Num(0) ELSE x

\* pd.to_numeric(x, errors='coerce') of one cell
ToNumericCoerce(x) ==
    CASE x.k = "num" -> x
      [] x.k = "str" -> (LET r == PyFloatOfStr(x.s) IN IF r.k = "raise" THEN NaN ELSE r)
      [] OTHER -> NaN

\* parse_pace_to_seconds_per_unit(pace_str)
parse_pace_to_seconds_per_unit(pace_str) ==
    IF isna(pace_str) THEN Num(0)
    ELSE LET parts == Split(PyStr(pace_str), ":")
             a == PyIntOfStr(parts[1])
             b == PyIntOfStr(parts[2])
             r == IF Len(parts) = 2
                  THEN (IF a.k = "raise" \/ b.k = "raise" THEN Raise("ValueError")
                        ELSE Num(a.n * 60 + b.n))
                  ELSE PyFloat(pace_str)
         IN IF r.k = "raise" /\ r.s \in {<<"ValueError">>, <<"TypeError">>}
            THEN Num(0)
            ELSE r

Onbekend == Str(<<"Onbekend">>)

\* mutant: the function works on the caller's frame itself (no copy)
CallerFrameAliased(df, df_processed) == df_processed

\* df_processed = df.copy(): every later in-place change is made to the
\* copy, the caller's frame stays as it was
CallerFrameAfter(df, df_processed) == df

\* mutant: the rows with an unparseable date are kept
DateStepKeepAll(df) ==
    IF HasCol(df, N("date"))
    THEN SetColumn(df, N("date"), LAMBDA r : ToDatetimeCoerce(Cell(df, r, N("date"))))
    ELSE SetColumn(df, N("date"), LAMBDA r : NaT)

\* the date column: parsed, rows without a timestamp dropped
DateStep(df) ==
    IF HasCol(df, N("date"))
    THEN DropNa(SetColumn(df, N("date"),
                          LAMBDA r : ToDatetimeCoerce(Cell(df, r, N("date")))),
                N("date"))
    ELSE SetColumn(df, N("date"), LAMBDA r : NaT)

\* the numeric columns read with pd.to_numeric(errors='coerce').fillna(0)
NumericStep(df, name) ==
    IF HasCol(df, name)
    THEN SetColumn(df, name, LAMBDA r : FillNa0(ToNumericCoerce(Cell(df, r, name))))
    ELSE SetColumn(df, name, LAMBDA r : Num(0))

\* a derived column: F of the source column's cell, 0.0 without the source
DerivedStep(df, source, target, F(_)) ==
    IF HasCol(df, source)
    THEN SetColumn(df, target, LAMBDA r : F(Cell(df, r, source)))
    ELSE SetColumn(df, target, LAMBDA r : Num(0))

\* the week and month columns
PeriodStep(df) ==
    IF HasCol(df, N("date")) /\ df.rows # <<>>
          /\ \E i \in 1..Len(df.rows) : ~isna(Cell(df, df.rows[i], N("date")))
    THEN LET D(r) == Cell(df, r, N("date")).n
             a == SetColumn(df, N("year_week"), LAMBDA r : StrfYearWeek(D(r)))
             b == SetColumn(a, N("date_week_start"), LAMBDA r : Ts(D(r) - Weekday(D(r))))
             c == SetColumn(b, N("date_week_end"), LAMBDA r : Ts(D(r) - Weekday(D(r)) + 6))
         IN SetColumn(c, N("year_month"), LAMBDA r : StrfYearMonth(D(r)))
    ELSE LET a == SetColumn(df, N("year_week"), LAMBDA r : Onbekend)
             b == SetColumn(a, N("year_month"), LAMBDA r : Onbekend)
             c == SetColumn(b, N("date_week_start"), LAMBDA r : NaT)
         IN SetColumn(c, N("date_week_end"), LAMBDA r : NaT)

\* astype(float) raises for the whole column when one cell is no number
DistanceRaises(df) ==
    /\ HasCol(df, N("distance_km"))
    /\ \E i \in 1..Len(df.rows) :
          DistanceCell(Cell(df, df.rows[i], N("distance_km"))).k = "raise"

\* the distance column: comma as decimal point, missing values 0
DistanceStep(df) ==
    IF HasCol(df, N("distance_km"))
    THEN SetColumn(df, N("distance_km"),
                   LAMBDA r : FillNa0(DistanceCell(Cell(df, r, N("distance_km")))))
    ELSE SetColumn(df, N("distance_km"), LAMBDA r : Num(0))

\* activity_type is 'Onbekend' when the column is missing
ActivityTypeStep(df) ==
    IF ~HasCol(df, N("activity_type"))
    THEN SetColumn(df, N("activity_type"), LAMBDA r : Onbekend)
    ELSE df

\* lines 44-65: clean, map, rename, parse the dates
UpToDates(df, column_mapping_user) ==
    DateStep(RenameColumns(MapLoop(CleanColumns(df), <<>>, column_mapping_user, 1)))

\* lines 72-136: everything after the distance column
AfterDistance(df) ==
    PeriodStep(
      DerivedStep(
        DerivedStep(
          DerivedStep(
            ActivityTypeStep(
              NumericStep(NumericStep(NumericStep(df, N("calories_kcal")), N("steps")),
                          N("avg_heart_rate_bpm"))),
            N("duration_raw"), N("duration_seconds"), parse_time_to_seconds),
          N("avg_pace_raw"), N("avg_pace_sec_per_km"), parse_pace_to_seconds_per_unit),
        N("best_pace_raw"), N("best_pace_sec_per_km"), parse_pace_to_seconds_per_unit))

Returned(df, final) ==
    [k |-> "frame", exc |-> "", df |-> final, caller |-> CallerFrameAfter(df, final)]
Raised(df, reached) ==
    [k |-> "raise", exc |-> "ValueError", df |-> EmptyFrame,
     caller |-> CallerFrameAfter(df, reached)]
Outcome(df, dated) ==
    IF DistanceRaises(dated)
    THEN Raised(df, dated)
    ELSE Returned(df, AfterDistance(DistanceStep(dated)))

\* process_mapped_data(df, column_mapping_user): the outcome is the frame
\* returned (k = "frame") or the exception raised (k = "raise"); caller is
\* the caller's frame after the call
process_mapped_data(df, column_mapping_user) ==
    Outcome(df, UpToDates(df, column_mapping_user))

\* mutant: the order of the two dates is not checked
DateRangeFilterUnchecked(processed_df, start_date, end_date) ==
    LET InRange(r) ==
            LET c == Cell(processed_df, r, N("date"))
            IN c.k = "ts" /\ c.n >= start_date /\ c.n <= end_date
    IN [error |-> FALSE, df |-> [processed_df EXCEPT !.rows = SelectSeq(@, InRange)]]

\* mutant: the upper end of the range is excluded
DateRangeFilterOpenEnd(processed_df, start_date, end_date) ==
    IF start_date > end_date
    THEN [error |-> TRUE, df |-> EmptyFrame]
    ELSE LET InRange(r) ==
                LET c == Cell(processed_df, r, N("date"))
                IN c.k = "ts" /\ c.n >= start_date /\ c.n < end_date
         IN [error |-> FALSE, df |-> [processed_df EXCEPT !.rows = SelectSeq(@, InRange)]]

\* the sidebar's date filter: the rows whose calendar day lies in
\* start_date..end_date, or the error and an empty frame when start > end
DateRangeFilter(processed_df, start_date, end_date) ==
    IF start_date > end_date
    THEN [error |-> TRUE, df |-> EmptyFrame]
    ELSE LET InRange(r) ==
                LET c == Cell(processed_df, r, N("date"))
                IN c.k = "ts" /\ c.n >= start_date /\ c.n <= end_date
         IN [error |-> FALSE, df |-> [processed_df EXCEPT !.rows = SelectSeq(@, InRange)]]

Alle == <<"Alle">>
\* all_activity_types: 'Alle' and the non-null types of the date-filtered rows
all_activity_types(filtered_df) ==
    {Alle} \cup {Cell(filtered_df, filtered_df.rows[i], N("activity_type")).s :
                    i \in {j \in 1..Len(filtered_df.rows) :
                              Cell(filtered_df, filtered_df.rows[j], N("activity_type")).k = "str"}}

\* Series.isin(selected) of one cell
IsIn(x, selected) == x.k = "str" /\ x.s \in selected

\* mutant: only the selection of 'Alle' alone passes the rows through
ActivityTypeFilterAlleAlone(filtered_df, selected_activity_types) ==
    IF HasCol(filtered_df, N("activity_type")) /\ ~DfEmpty(filtered_df)
    THEN [warning |-> FALSE,
          df |-> IF selected_activity_types = {Alle} THEN filtered_df
                 ELSE LET Sel(r) == IsIn(Cell(filtered_df, r, N("activity_type")),
                                         selected_activity_types)
                      IN [filtered_df EXCEPT !.rows = SelectSeq(@, Sel)]]
    ELSE [warning |-> TRUE, df |-> filtered_df]

\* the sidebar's activity-type filter on the date-filtered rows: without
\* 'Alle' in the selection the rows whose type is selected; the warning and
\* no filtering when there is no such column or no row
ActivityTypeFilter(filtered_df, selected_activity_types) ==
    IF HasCol(filtered_df, N("activity_type")) /\ ~DfEmpty(filtered_df)
    THEN [warning |-> FALSE,
          df |-> IF Alle \in selected_activity_types THEN filtered_df
                 ELSE LET Sel(r) == IsIn(Cell(filtered_df, r, N("activity_type")),
                                         selected_activity_types)
                      IN [filtered_df EXCEPT !.rows = SelectSeq(@, Sel)]]
    ELSE [warning |-> TRUE, df |-> filtered_df]

(***************************************************************************)
(* Period aggregation (dashboard.py:429-474).  Sums are decimal numbers;   *)
(* a mean is the exact fraction p/q in lowest terms, or NaN.               *)
(***************************************************************************)
Abs(n) == IF n < 0 THEN -n ELSE n
RECURSIVE GCD(_, _)
GCD(a, b) == IF b = 0 THEN a ELSE GCD(b, a % b)
Frac(p, q) ==
    LET g == GCD(Abs(p), q)
    IN [k |-> "frac", p |-> p \div g, q |-> q \div g]

\* a + b of two numbers
AddNum(a, b) ==
    LET e == IF a.e > b.e THEN a.e ELSE b.e
    IN Norm(a.n * Pow10(e - a.e) + b.n * Pow10(e - b.e), e)

RECURSIVE SumCells(_)
\* Series.sum() of numbers
SumCells(xs) == IF xs = <<>> THEN Num(0) ELSE AddNum(xs[1], SumCells(Tail(xs)))

\* Series.mean(): NaN for no value
MeanCells(xs) ==
    IF xs = <<>> THEN NaN
    ELSE Frac(SumCells(xs).n, Pow10(SumCells(xs).e) * Len(xs))

\* mutant: the zero readings count in the mean
MeanOfAll(xs) == MeanCells(xs)

\* lambda x: x[x > 0].mean()
MeanOfPositive(xs) == MeanCells(SelectSeq(xs, LAMBDA x : x.k = "num" /\ x.n > 0))

\* round(0).astype('Int64').fillna(0) of a mean: half rounds to even, no
\* value shows as 0
RoundShown(m) ==
    IF m.k # "frac" THEN 0
    ELSE LET f == m.p \div m.q
             twice == 2 * (m.p - f * m.q)
         IN IF twice < m.q THEN f
            ELSE IF twice > m.q THEN f + 1
            ELSE IF f % 2 = 0 THEN f ELSE f + 1

\* int(x) of a mean, as format_duration takes it
TruncMean(m) ==
    IF m.k # "frac" THEN NaN
    ELSE IF m.p >= 0 THEN Num(m.p \div m.q) ELSE Num(-((-m.p) \div m.q))

LowerLetters ==
    << "a", "b", "c", "d", "e", "f", "g", "h", "i", "j", "k", "l", "m",
       "n", "o", "p", "q", "r", "s", "t", "u", "v", "w", "x", "y", "z" >>
UpperLetters ==
    << "A", "B", "C", "D", "E", "F", "G", "H", "I", "J", "K", "L", "M",
       "N", "O", "P", "Q", "R", "S", "T", "U", "V", "W", "X", "Y", "Z" >>
\* ord(c) of the characters that occur in keys
CharCode(c) ==
    IF c = " " THEN 32
    ELSE IF c = "-" THEN 45
    ELSE IF c = "." THEN 46
    ELSE IF IsDigit(c) THEN 48 + DigitVal(c)
    ELSE IF \E i \in 1..26 : UpperLetters[i] = c
    THEN 64 + (CHOOSE i \in 1..26 : UpperLetters[i] = c)
    ELSE IF c = "_" THEN 95
    ELSE IF \E i \in 1..26 : LowerLetters[i] = c
    THEN 96 + (CHOOSE i \in 1..26 : LowerLetters[i] = c)
    ELSE 127
RECURSIVE TextLess(_, _)
\* a < b of two strings
TextLess(a, b) ==
    IF b = <<>> THEN FALSE
    ELSE IF a = <<>> THEN TRUE
    ELSE IF CharCode(a[1]) # CharCode(b[1]) THEN CharCode(a[1]) < CharCode(b[1])
    ELSE TextLess(Tail(a), Tail(b))

RECURSIVE SortedTexts(_)
\* the texts of a set in ascending order
SortedTexts(ts) ==
    IF ts = {} THEN <<>>
    ELSE LET least == CHOOSE t \in ts : \A u \in ts \ {t} : TextLess(t, u)
         IN <<least>> \o SortedTexts(ts \ {least})

\* the cells of a column, in row order
ColumnOf(df, name) == [i \in 1..Len(df.rows) |-> Cell(df, df.rows[i], name)]
\* the values of a numeric column that sum and mean take: NaN is skipped
ValuesOf(df, name) == SelectSeq(ColumnOf(df, name), LAMBDA x : x.k = "num")
\* the rows of one group
GroupRows(df, by, key) ==
    [df EXCEPT !.rows = SelectSeq(@, LAMBDA r : Cell(df, r, by) = Str(key))]
\* the group keys: the non-null values of the column
GroupKeys(df, by) ==
    {Cell(df, df.rows[i], by).s :
        i \in {j \in 1..Len(df.rows) : Cell(df, df.rows[j], by).k = "str"}}

RECURSIVE MinDay(_)
MinDay(xs) ==
    IF Len(xs) = 1 THEN xs[1]
    ELSE IF xs[1].n <= MinDay(Tail(xs)).n THEN xs[1] ELSE MinDay(Tail(xs))
RECURSIVE MaxDay(_)
MaxDay(xs) ==
    IF Len(xs) = 1 THEN xs[1]
    ELSE IF xs[1].n >= MaxDay(Tail(xs)).n THEN xs[1] ELSE MaxDay(Tail(xs))

\* one row of the aggregation: the sums and means of a group, the week's
\* first and last day for the weekly table, and the columns of lines
\* 472-474
AggRow(g, key, weekly) ==
    [Periode |-> Str(key),
     total_distance |-> SumCells(ValuesOf(g, N("distance_km"))),
     avg_distance |-> MeanCells(ValuesOf(g, N("distance_km"))),
     total_duration |-> SumCells(ValuesOf(g, N("duration_seconds"))),
     avg_duration |-> MeanCells(ValuesOf(g, N("duration_seconds"))),
     avg_heart_rate |-> MeanOfPositive(ValuesOf(g, N("avg_heart_rate_bpm"))),
     shown_heart_rate |-> RoundShown(MeanOfPositive(ValuesOf(g, N("avg_heart_rate_bpm")))),
     total_duration_text |-> format_duration(SumCells(ValuesOf(g, N("duration_seconds")))),
     avg_duration_text |->
         format_duration(TruncMean(MeanCells(ValuesOf(g, N("duration_seconds"))))),
     week_start |-> IF weekly THEN MinDay(ColumnOf(g, N("date_week_start"))) ELSE NaT,
     week_end |-> IF weekly THEN MaxDay(ColumnOf(g, N("date_week_end"))) ELSE NaT]

AggRows(filtered_df, by, keys) ==
    [i \in 1..Len(keys) |->
        AggRow(GroupRows(filtered_df, by, keys[i]), keys[i], by = N("year_week"))]

\* groupby(by).agg(...).reset_index(): one row per key, in ascending order
\* of the keys
period_aggregation(filtered_df, by) ==
    AggRows(filtered_df, by, SortedTexts(GroupKeys(filtered_df, by)))

\* lines 429-434: the table is built for a non-empty dataset whose five
\* columns exist and hold a value
AggregationGate(filtered_df) ==
    /\ ~DfEmpty(filtered_df)
    /\ \A c \in {"distance_km", "duration_seconds", "avg_heart_rate_bpm",
                 "year_week", "year_month"} :
          /\ HasCol(filtered_df, N(c))
          /\ \E i \in 1..Len(filtered_df.rows) :
                ~isna(Cell(filtered_df, filtered_df.rows[i], N(c)))

(***************************************************************************)
(* The FIT dashboard (src/LeesMoreFit.py).  A FIT file is its name, whether *)
(* fitparse can read it, and its record and session messages; a message    *)
(* gives each field a value, None, or does not have the field.             *)
(***************************************************************************)
Absent == Val("absent", <<>>, 0, 0)
\* the fields of a record message, in the order the message lists them
RecordFields == <<"timestamp", "heart_rate">>

\* data[field.name] = field.value for the fields of one record
RecordKeys(record) == SelectSeq(RecordFields, LAMBDA f : record[f] # Absent)

RECURSIVE NewKeys(_, _)
\* the keys that cols does not hold yet, in their order
NewKeys(keys, cols) ==
    IF keys = <<>> THEN <<>>
    ELSE IF \E i \in 1..Len(cols) : cols[i] = Head(keys) THEN NewKeys(Tail(keys), cols)
    ELSE <<Head(keys)>> \o NewKeys(Tail(keys), cols)

RECURSIVE RecordColumns(_, _)
\* the columns of pd.DataFrame(records_data): the keys in the order of their
\* first appearance
RecordColumns(records, cols) ==
    IF records = <<>> THEN cols
    ELSE RecordColumns(Tail(records), cols \o NewKeys(RecordKeys(Head(records)), cols))

\* column_renames
column_renames(name) ==
    IF name = "timestamp" THEN N("DatumTijd")
    ELSE IF name = "heart_rate" THEN N("Hartslag_bpm")
    ELSE N(name)

\* pd.DataFrame(records_data) and df.rename(columns=column_renames): a key a
\* record lacks is NaN in its row
FrameOfRecords(records, keys) ==
    [cols |-> [j \in 1..Len(keys) |-> column_renames(keys[j])],
     rows |-> [i \in 1..Len(records) |->
                 [idx |-> i - 1,
                  cells |-> [j \in 1..Len(keys) |->
                               IF records[i][keys[j]] = Absent THEN NaN
                               ELSE records[i][keys[j]]]]]]
RecordsFrame(records) == FrameOfRecords(records, RecordColumns(records, <<>>))

\* df[name] = v, a new column with one value in every row
AddConst(df, name, v) ==
    [cols |-> Append(df.cols, N(name)),
     rows |-> [i \in 1..Len(df.rows) |->
                 [df.rows[i] EXCEPT !.cells = Append(@, v)]]]

\* lines 61-78 for records without position, distance and speed fields
UnitColumns(df) ==
    AddConst(AddConst(AddConst(AddConst(df, "Latitude", NA), "Longitude", NA),
                      "Afstand_km", Num(0)), "Snelheid_kmh", Num(0))

\* line 82: pd.to_datetime(df['DatumTijd'], errors='coerce')
DatumTijdCoerced(df) ==
    [df EXCEPT !.rows =
        [i \in 1..Len(df.rows) |->
            [df.rows[i] EXCEPT !.cells[ColPos(df, N("DatumTijd"))] = ToDatetimeCoerce(@)]]]

RECURSIVE InsertByTime(_, _, _)
\* r put behind the rows of the sorted sequence that are not later than it
InsertByTime(sorted, r, p) ==
    IF sorted = <<>> THEN <<r>>
    ELSE IF Head(sorted).cells[p].n <= r.cells[p].n
    THEN <<Head(sorted)>> \o InsertByTime(Tail(sorted), r, p)
    ELSE <<r>> \o sorted

RECURSIVE SortByTime(_, _)
\* sort_values(by='DatumTijd') of rows without NaT: ascending, rows of equal
\* time in their former order (the sort of a short column is an insertion
\* sort)
SortByTime(rows, p) ==
    IF rows = <<>> THEN <<>>
    ELSE InsertByTime(SortByTime(SubSeq(rows, 1, Len(rows) - 1), p), rows[Len(rows)], p)

\* reset_index(drop=True)
ResetIndex(rows) == [i \in 1..Len(rows) |-> [rows[i] EXCEPT !.idx = i - 1]]

\* mutant: the rows without a time are dropped, the others keep their order
ValidSamplesUnsorted(df) ==
    [DropNa(DatumTijdCoerced(df), N("DatumTijd")) EXCEPT !.rows = ResetIndex(@)]

\* lines 82-84: to_datetime, dropna, sort_values, reset_index
ValidSamples(df) ==
    [DropNa(DatumTijdCoerced(df), N("DatumTijd")) EXCEPT
        !.rows = ResetIndex(SortByTime(@, ColPos(df, N("DatumTijd"))))]

SecondsPerDay == 86400
\* line 85: the seconds since the first sample; iloc[0] of an empty column
\* raises IndexError
TijdSec(df) ==
    [cols |-> Append(df.cols, N("Tijd_sec")),
     rows |-> [i \in 1..Len(df.rows) |->
                 [df.rows[i] EXCEPT !.cells =
                    Append(@, Num(SecondsPerDay
                                  * (Cell(df, df.rows[i], N("DatumTijd")).n
                                     - Cell(df, df.rows[1], N("DatumTijd")).n)))]]]

IsLetter(c) == \E i \in 1..26 : LowerLetters[i] = c \/ UpperLetters[i] = c
Upper(c) ==
    IF \E i \in 1..26 : LowerLetters[i] = c
    THEN UpperLetters[CHOOSE i \in 1..26 : LowerLetters[i] = c] ELSE c
Lower(c) ==
    IF \E i \in 1..26 : UpperLetters[i] = c
    THEN LowerLetters[CHOOSE i \in 1..26 : UpperLetters[i] = c] ELSE c
\* str.title(): a letter that follows a letter is lowered, any other raised
Title(t) ==
    [i \in 1..Len(t) |-> IF i > 1 /\ IsLetter(t[i - 1]) THEN Lower(t[i]) ELSE Upper(t[i])]
\* str.replace('_', ' ')
UnderscoreToSpace(t) == [i \in 1..Len(t) |-> IF t[i] = "_" THEN " " ELSE t[i]]

\* 'f' in session_dict and session_dict['f'] is not None
HasField(d, f) == d[f] # Absent /\ d[f] # NoValue

\* lines 95-98: the defaults
SessionDefaults ==
    [activity_type |-> Str(<<"O", "n", "b", "e", "k", "e", "n", "d">>),
     session_calories |-> Num(0),
     session_max_speed_kmh |-> Num(0),
     session_total_elevation_gain_m |-> Num(0)]

\* lines 102-110: one pass of the loop's body over a session message
SessionBody(session_dict, summary) ==
    [activity_type |->
        IF HasField(session_dict, "sport")
        THEN Str(Title(UnderscoreToSpace(session_dict.sport.s)))
        ELSE summary.activity_type,
     session_calories |->
        IF HasField(session_dict, "total_calories")
        THEN session_dict.total_calories ELSE summary.session_calories,
     session_max_speed_kmh |->
        IF HasField(session_dict, "max_speed")
        THEN Norm(session_dict.max_speed.n * 36, session_dict.max_speed.e + 1)
        ELSE summary.session_max_speed_kmh,
     session_total_elevation_gain_m |->
        IF HasField(session_dict, "total_elevation_gain")
        THEN session_dict.total_elevation_gain
        ELSE summary.session_total_elevation_gain_m]

RECURSIVE SessionFold(_, _)
SessionFold(sessions, summary) ==
    IF sessions = <<>> THEN summary
    ELSE SessionFold(Tail(sessions), SessionBody(Head(sessions), summary))

\* mutant: the loop without its break, every session message is read
SessionLoopNoBreak(sessions) == SessionFold(sessions, SessionDefaults)

\* lines 101-111: the loop ends after its first pass
SessionLoop(sessions) ==
    IF sessions = <<>> THEN SessionDefaults
    ELSE SessionBody(Head(sessions), SessionDefaults)

\* lines 91 and 115-118: the activity's id and the session's values in
\* every row
SummaryColumns(df, activity_id, summary) ==
    AddConst(AddConst(AddConst(AddConst(AddConst(df,
        "Activity_ID", Str(activity_id)),
        "Activiteitstype", summary.activity_type),
        "Totale_Calorieen", summary.session_calories),
        "Max_Snelheid_Activiteit", summary.session_max_speed_kmh),
        "Totale_Stijging_Meters", summary.session_total_elevation_gain_m)

\* the outcome of a call: the frame returned, the messages shown, and the
\* exception that leaves the call
Parsed(df, msgs, exc) == [df |-> df, msgs |-> msgs, exc |-> exc]

\* lines 33-120, the body of the try: "IndexError" and "FitParseError" are
\* the exceptions raised in it
\* lines 85-120 on the sorted samples
AfterSamples(file, df) ==
    IF df.rows = <<>> THEN Parsed(EmptyFrame, {}, "IndexError")
    ELSE Parsed(SummaryColumns(TijdSec(df), file.name, SessionLoop(file.sessions)), {}, "")
\* lines 57-120 on the frame of the records
AfterRecords(file, df) ==
    IF ~HasCol(df, N("DatumTijd"))
    THEN Parsed(EmptyFrame, {"error_no_timestamp"}, "")
    ELSE AfterSamples(file, ValidSamples(UnitColumns(df)))
TryBody(file) ==
    IF ~file.readable THEN Parsed(EmptyFrame, {}, "FitParseError")
    ELSE AfterRecords(file, RecordsFrame(file.records))

\* lines 122-124: except Exception
Handled(outcome) ==
    IF outcome.exc # "" THEN Parsed(EmptyFrame, {"error_parse"}, "") ELSE outcome

\* mutant: no handler around the body, its exception leaves the call
parse_fit_file_unhandled(file) == TryBody(file)

\* parse_fit_file(file_bytes, activity_id): except Exception shows the
\* error and returns an empty frame
parse_fit_file(file) == Handled(TryBody(file))

RECURSIVE ConcatColumns(_, _)
\* the columns of pd.concat: those of the frames in the order of their
\* first appearance
ConcatColumns(dfs, cols) ==
    IF dfs = <<>> THEN cols
    ELSE ConcatColumns(Tail(dfs), cols \o NewKeys(Head(dfs).cols, cols))

\* the rows of df laid out in cols: NaN in a column df lacks
RowsIn(df, cols) ==
    [i \in 1..Len(df.rows) |->
        [idx |-> df.rows[i].idx,
         cells |-> [j \in 1..Len(cols) |->
                      IF HasCol(df, cols[j]) THEN Cell(df, df.rows[i], cols[j]) ELSE NaN]]]

RECURSIVE ConcatRows(_, _)
ConcatRows(dfs, cols) ==
    IF dfs = <<>> THEN <<>>
    ELSE RowsIn(Head(dfs), cols) \o ConcatRows(Tail(dfs), cols)

\* pd.concat(all_dfs, ignore_index=True)
ConcatIn(dfs, cols) == [cols |-> cols, rows |-> ResetIndex(ConcatRows(dfs, cols))]
Concat(dfs) == ConcatIn(dfs, ConcatColumns(dfs, <<>>))

\* a + b of two fractions
AddFrac(a, b) == Frac(a.p * b.q + b.p * a.q, a.q * b.q)
RECURSIVE SumFracs(_)
SumFracs(ms) == IF ms = <<>> THEN Frac(0, 1) ELSE AddFrac(Head(ms), SumFracs(Tail(ms)))
\* Series.mean() of means: NaN is skipped, NaN for no value
MeanOfFracs(fs, total) == IF fs = <<>> THEN NaN ELSE Frac(total.p, total.q * Len(fs))
MeanOfValid(fs) == MeanOfFracs(fs, SumFracs(fs))
MeanOfMeans(ms) == MeanOfValid(SelectSeq(ms, LAMBDA m : m.k = "frac"))

\* the rows of one activity
ActivityRows(df, id) ==
    [df EXCEPT !.rows = SelectSeq(@, LAMBDA r : Cell(df, r, N("Activity_ID")) = Str(id))]
\* the activities of the dataset, in ascending order of their ids
ActivityIds(df) == SortedTexts({Cell(df, df.rows[i], N("Activity_ID")).s : i \in 1..Len(df.rows)})

\* df.groupby('Activity_ID')['Hartslag_bpm'] of one activity: every reading
HeartRates(df, id) == ValuesOf(ActivityRows(df, id), N("Hartslag_bpm"))

\* line 195: the mean of the activities' mean heart rates, 0 without the
\* column
ActivityMeans(df, ids) == [i \in 1..Len(ids) |-> MeanCells(HeartRates(df, ids[i]))]
avg_heart_rate_combined(df) ==
    IF HasCol(df, N("Hartslag_bpm"))
    THEN MeanOfMeans(ActivityMeans(df, ActivityIds(df)))
    ELSE Frac(0, 1)

\* lines 185-203: the figures of the overview
FitKpis(df) ==
    [shown |-> TRUE,
     num_activities |-> Len(ActivityIds(df)),
     avg_heart_rate_combined |-> avg_heart_rate_combined(df),
     total_calories_combined |-> SumCells(ValuesOf(df, N("Totale_Calorieen"))),
     total_elevation_gain_combined |-> SumCells(ValuesOf(df, N("Totale_Stijging_Meters")))]
NoKpis ==
    [shown |-> FALSE, num_activities |-> 0, avg_heart_rate_combined |-> NaN,
     total_calories_combined |-> Num(0), total_elevation_gain_combined |-> Num(0)]
\* line 176: the overview is built for a non-empty dataset
MainContent(df) == IF DfEmpty(df) THEN NoKpis ELSE FitKpis(df)

\* the files of a selection
FilesOf(files) == {files[i] : i \in 1..Len(files)}

\* mutant: parse_fit_file without st.cache_data, every call runs the body
CacheMissesUncached(files, cache) == FilesOf(files)

\* line 27, @st.cache_data: the body of parse_fit_file runs for the calls
\* whose arguments (the file's bytes and name) have no stored result
CacheMisses(files, cache) == FilesOf(files) \ cache

\* {f.name for f in uploaded_fit_files}
FileNamesOf(files) == {files[i].name : i \in 1..Len(files)}
\* {df.attrs['original_filename'] for df in fit_dfs_list}
PreviousNames(list) == {list[i].original_filename : i \in 1..Len(list)}

\* lines 147-152: every file is parsed, the non-empty results are kept with
\* the file's name
Calls(files) == [i \in 1..Len(files) |-> parse_fit_file(files[i])]
AllDfs(files, calls) ==
    SelectSeq([i \in 1..Len(files) |->
                  [original_filename |-> files[i].name, df |-> calls[i].df]],
              LAMBDA d : ~DfEmpty(d.df))
\* the first call that an exception leaves, 0 for none
FirstRaise(calls) ==
    IF \E i \in 1..Len(calls) : calls[i].exc # ""
    THEN CHOOSE i \in 1..Len(calls) :
            /\ calls[i].exc # ""
            /\ \A j \in 1..(i - 1) : calls[j].exc = ""
    ELSE 0
CallMessages(calls, n) == UNION {calls[i].msgs : i \in 1..n}

(***************************************************************************)
(* Inputs of the codec specification.                                      *)
(***************************************************************************)
Colon == <<":">>
RECURSIVE Join(_)
\* ":".join(fields)
Join(fs) == IF Len(fs) = 1 THEN fs[1] ELSE fs[1] \o Colon \o Join(Tail(fs))

\* one ':'-free field: integers (plain, zero-padded, negative) and non-integers
FieldInts == {0, 5}
Fields ==
    {IntToStr(v) : v \in FieldInts}
        \cup {ZeroFill(IntToStr(v), 2) : v \in FieldInts}
        \cup {IntToStr(-v) : v \in FieldInts \ {0}}
        \cup {<<>>, <<"g">>, <<"1", ".", "5">>}

\* the texts of k fields joined by ':'
FieldTexts(k) == {Str(Join(fs)) : fs \in [1..k -> Fields]}

ExampleTexts ==
    { <<"0", "1", ":", "0", "2", ":", "0", "3">>,
      <<"5", ":", "3", "0">>,
      <<>>,
      <<"g", "a", "r", "b", "a", "g", "e">>,
      <<"9", "0">>,
      <<"1", ":", "7", "5">> }

HourSamples == {0, 1, 23, 24, 99}
BigHourSamples == {100, 101, 1000}
\* canonical zero-padded HH:MM:SS texts
Canonical(h, m, s) ==
    ZeroFill(NatToStr(h), 2) \o Colon \o ZeroFill(NatToStr(m), 2) \o Colon
        \o ZeroFill(NatToStr(s), 2)
CanonicalTexts == {Canonical(h, m, s) : h \in HourSamples, m \in 0..59, s \in 0..59}

FixedParseInputs ==
    {Str(t) : t \in ExampleTexts} \cup {Str(t) : t \in CanonicalTexts} \cup {NaN, NA}

SecondCounts ==
    {h * 3600 + m * 60 + s : h \in HourSamples \cup BigHourSamples, m \in 0..59, s \in {0, 1, 30, 59}}
FormatInputs ==
    {Num(n) : n \in SecondCounts} \cup {Num(-n) : n \in {1, 59, 60, 3600, 3661}}
        \cup {NaN, Norm(5, 1), Norm(-5, 1), Norm(15, 1)}

(***************************************************************************)
(* Inputs of the process specification: raw tables of eight columns.       *)
(***************************************************************************)
CleanHeaders ==
    << <<"Datum">>, <<"Type">>, <<"Afstand">>, <<"Cal">>, <<"Tijd">>, <<"HS">>,
       <<"Stappen">>, <<"Tempo">> >>
\* the same headers as a file may hold them: blanks, non-breaking spaces
\* and the mis-encoded (R) sign around the name
DirtyHeaders ==
    << <<" ", "Datum">>, <<"Type", "nbsp">>, <<"Afstand", "A^", "(R)">>, <<"Cal">>,
       <<"Tijd", "nbsp", "A^", "(R)">>, <<"HS", " ">>, <<"tab", "Stappen">>, <<"Tempo">> >>
HeaderStyles == {CleanHeaders, DirtyHeaders}

Day1Text == <<"2", "0", "2", "4", "-", "0", "1", "-", "0", "1">>
Day2Text == <<"2", "0", "2", "4", "-", "0", "1", "-", "0", "3">>
NoDayText == <<"2", "0", "2", "4", "-", "0", "2", "-", "3", "0">>
Day1 == DaysFromCivil(2024, 1, 1)
Day2 == DaysFromCivil(2024, 1, 3)

DateCells == {Str(Day1Text), Str(Day2Text), Str(<<"g">>), Str(NoDayText), NaN}
DistCells ==
    {Str(<<"1", "2", ",", "5">>), Str(<<"a", "b", "c">>), NaN, Num(3),
     Str(<<"-", "2", ",", "5">>)}
\* the other six cells of a row: type, calories, duration, heart rate,
\* steps, pace
RestCells ==
    { << Str(<<"Run">>), Num(300), Str(<<"0", "1", ":", "0", "2", ":", "0", "3">>),
         Num(150), Str(<<"1", "0", "0", "0">>), Str(<<"5", ":", "3", "0">>) >>,
      << Str(<<"Walk">>), Str(<<"a", "b", "c">>), Str(<<"-", "1", ":", "3", "0">>),
         Num(0), NaN, Str(<<"g">>) >> }

RowsOf(dates, dists, rests) ==
    {<<d, r[1], a>> \o SubSeq(r, 2, 6) : d \in dates, a \in dists, r \in rests}
RowCells == RowsOf(DateCells, DistCells, RestCells)
\* the rows of the longer tables: a date that parses or not, a distance
\* with a decimal comma, without a number, or missing
FewRowCells ==
    RowsOf({Str(Day1Text), Str(Day2Text), Str(<<"g">>)},
           {Str(<<"1", "2", ",", "5">>), Str(<<"a", "b", "c">>), NaN},
           {r \in RestCells : r[1] = Str(<<"Run">>)})
\* the table of the rows cs, with the index labels 0..n-1 of a file read
Table(headers, cs) ==
    [cols |-> headers, rows |-> [i \in 1..Len(cs) |-> [idx |-> i - 1, cells |-> cs[i]]]]

\* the mapping the settings tab suggests for these headers
FullMapping ==
    [f \in {all_expected_columns[i] : i \in 1..Len(all_expected_columns)} |->
        CASE f = "date" -> <<"Datum">>
          [] f = "activity_type" -> <<"Type">>
          [] f = "distance_km" -> <<"Afstand">>
          [] f = "calories_kcal" -> <<"Cal">>
          [] f = "duration_raw" -> <<"Tijd">>
          [] f = "avg_heart_rate_bpm" -> <<"HS">>
          [] f = "steps" -> <<"Stappen">>
          [] f = "avg_pace_raw" -> <<"Tempo">>
          [] OTHER -> <<>>]
MappedFields == {f \in DOMAIN FullMapping : FullMapping[f] # <<>>}
\* every field mapped: the file has fewer columns than there are fields, so
\* three columns are selected for two fields each
AllMapped ==
    [FullMapping EXCEPT !["title"] = <<"Type">>, !["max_heart_rate_bpm"] = <<"HS">>,
                        !["total_elevation_gain_m"] = <<"Stappen">>]
\* one entry emptied, or naming a column the file does not have, or every
\* field mapped
MappingVariants ==
    {[FullMapping EXCEPT ![f] = <<>>] : f \in MappedFields}
        \cup {[FullMapping EXCEPT ![f] = <<"Geen">>] : f \in {"date", "distance_km", "activity_type"}}
        \cup {AllMapped}

NoOutcome == [k |-> "none", exc |-> "", df |-> EmptyFrame, caller |-> EmptyFrame]
NoFilter == [start |-> 0, end |-> 0, error |-> FALSE, df |-> EmptyFrame]
FilterDays == {Day1, DaysFromCivil(2024, 1, 2), Day2}
\* what the activity-type multiselect may offer
TypeChoices == {Alle, <<"Run">>, <<"Walk">>}

(***************************************************************************)
(* The tabular dashboard's script (src/dashboard.py), run once per user    *)
(* event.  An exception that no handler catches ends the run; what the run *)
(* had stored in the session state by then stays stored.                   *)
(***************************************************************************)
NoFile == [id |-> 0, name |-> <<>>, readable |-> FALSE, df |-> EmptyFrame]
PyNone == [none |-> TRUE]
EmptyMapping == <<>>

EndsWith(t, a) == t # <<>> /\ t[Len(t)] = a

\* load_data(uploaded_file): the frame read, None and an error message for
\* a name that ends with none of '.csv', '.xls', '.xlsx', or the exception
\* pd.read_csv / pd.read_excel raises on content it cannot read
load_data(file) ==
    IF EndsWith(file.name, ".csv") \/ EndsWith(file.name, ".xls")
          \/ EndsWith(file.name, ".xlsx")
    THEN IF file.readable
         THEN [k |-> "frame", exc |-> "", df |-> file.df, msgs |-> {}]
         ELSE [k |-> "raise", exc |-> "ParserError", df |-> PyNone, msgs |-> {}]
    ELSE [k |-> "none", exc |-> "", df |-> PyNone, msgs |-> {"error_bad_format"}]

\* mutant: uploads are told apart by their file names
SameUploadByName(a, b) == a # NoFile /\ b # NoFile /\ a.name = b.name

\* UploadedFile.__eq__ compares the file ids; a file never equals None
SameUpload(a, b) == a # NoFile /\ b # NoFile /\ a.id = b.id

\* line 264: col.strip().replace(<mis-encoded (R)>, '', regex=False) on a
\* Python str; str.replace takes no keyword arguments, so the call on the
\* first column name raises TypeError
raw_columns_cleaned(df) ==
    IF df.cols = <<>>
    THEN [k |-> "list", exc |-> "", cols |-> <<>>]
    ELSE [k |-> "raise", exc |-> "TypeError", cols |-> <<>>]

\* all_mapped of the settings tab: every required field has a non-empty
\* entry in the mapping
AllRequiredMapped(mapping) ==
    \A f \in required_columns : f \in DOMAIN mapping /\ mapping[f] # <<>>

\* the multiselect's value: the picked options that the widget offers, or
\* nothing to pick from when the widget is not shown
Selection(filtered_df, picked) ==
    IF HasCol(filtered_df, N("activity_type")) /\ ~DfEmpty(filtered_df)
    THEN picked \cap all_activity_types(filtered_df)
    ELSE {}

\* lines 205-208 on the outcome of the two filters: the result is stored
\* only when rows remain
StoreFiltered(filtered, dated, typed) ==
    [filtered |-> IF DfEmpty(typed.df) THEN filtered ELSE typed.df,
     dated |-> dated.df,
     result |-> typed.df,
     error |-> dated.error,
     msgs |-> (IF dated.error THEN {"error_date_range"} ELSE {})
                 \cup (IF typed.warning THEN {"warning_no_type_filter"} ELSE {})
                 \cup (IF DfEmpty(typed.df) THEN {"warning_no_data"} ELSE {})]

TypeFiltered(filtered, dated, picked) ==
    StoreFiltered(filtered, dated,
                  ActivityTypeFilter(dated.df, Selection(dated.df, picked)))

\* the sidebar's filters for a non-empty processed_df: the date range and
\* the activity types the user picked
SidebarFilters(processed, filtered, start_date, end_date, picked) ==
    TypeFiltered(filtered, DateRangeFilter(processed, start_date, end_date), picked)

\* the sidebar for a non-empty raw_df
SidebarLoaded(processed, filtered, start_date, end_date, picked) ==
    IF ~DfEmpty(processed)
    THEN SidebarFilters(processed, filtered, start_date, end_date, picked)
    ELSE [filtered |-> EmptyFrame, dated |-> EmptyFrame, result |-> EmptyFrame,
          error |-> FALSE, msgs |-> {"info_go_to_settings"}]

\* one run of the script with the uploader holding u, the date inputs
\* holding start_date and end_date and the types picked in the multiselect
Script(u, start_date, end_date, picked) ==
    /\ uploaded_file' = u
    /\ IF u = NoFile
       THEN /\ ss_raw_df' = EmptyFrame
            /\ ss_processed_df' = EmptyFrame
            /\ ss_filtered_df' = EmptyFrame
            /\ UNCHANGED <<ss_column_mapping_user, ss_last_uploaded_file>>
            /\ messages' = {"info_upload", "info_upload_main"}
            /\ exception' = ""
       ELSE LET changed == ~SameUpload(u, ss_last_uploaded_file)
                loaded == load_data(u)
                raw == IF changed THEN loaded.df ELSE ss_raw_df
                processed == IF changed THEN EmptyFrame ELSE ss_processed_df
                load_msgs == IF changed THEN loaded.msgs ELSE {}
            IN IF changed /\ loaded.k = "raise"
               THEN \* line 157 raises before anything is stored
                    /\ exception' = loaded.exc
                    /\ messages' = {}
                    /\ UNCHANGED <<ss_raw_df, ss_processed_df, ss_filtered_df,
                                   ss_column_mapping_user, ss_last_uploaded_file>>
               ELSE /\ ss_raw_df' = raw
                    /\ ss_processed_df' = processed
                    /\ ss_column_mapping_user' =
                          (IF changed THEN EmptyMapping ELSE ss_column_mapping_user)
                    /\ ss_last_uploaded_file' = (IF changed THEN u ELSE ss_last_uploaded_file)
                    /\ IF raw = PyNone
                       THEN \* line 162: None has no attribute 'empty'
                            /\ exception' = "AttributeError"
                            /\ messages' = load_msgs
                            /\ UNCHANGED ss_filtered_df
                       ELSE IF DfEmpty(raw)
                       THEN /\ ss_filtered_df' = EmptyFrame
                            /\ messages' = load_msgs
                                  \cup {"error_empty_file", "info_upload_main"}
                            /\ exception' = ""
                       ELSE LET side == SidebarLoaded(processed, ss_filtered_df,
                                                      start_date, end_date, picked)
                                cleaned == raw_columns_cleaned(raw)
                            IN \* the settings tab is built in every such run
                               \* and line 264 ends the run
                               /\ ss_filtered_df' = side.filtered
                               /\ cleaned.k = "raise"
                               /\ exception' = cleaned.exc
                               /\ messages' = load_msgs \cup side.msgs
                                     \cup {"success_loaded", "info_map_columns"}

(***************************************************************************)
(* Inputs of the session specification: the files a user may upload.       *)
(***************************************************************************)
OneRow(cells) == <<[idx |-> 0, cells |-> cells]>>
GoodCells ==
    << Str(Day1Text), Str(<<"Run">>), Str(<<"1", "2", ",", "5">>), Num(300),
       Str(<<"0", "1", ":", "0", "2", ":", "0", "3">>), Num(150),
       Str(<<"1", "0", "0", "0">>), Str(<<"5", ":", "3", "0">>) >>
FileTables ==
    { [cols |-> CleanHeaders, rows |-> <<>>],
      [cols |-> CleanHeaders, rows |-> OneRow(GoodCells)],
      [cols |-> DirtyHeaders, rows |-> OneRow(GoodCells)] }
FileNames == { <<"a", ".csv">>, <<"a", ".CSV">>, <<"a", ".xlsx">> }
\* the uploads with file id i: readable tables and unreadable content
Uploads(i) ==
    {[id |-> i, name |-> nm, readable |-> TRUE, df |-> t] :
        nm \in FileNames, t \in FileTables}
      \cup {[id |-> i, name |-> nm, readable |-> FALSE, df |-> EmptyFrame] :
              nm \in FileNames}

(***************************************************************************)
(* Each specification moves its own variables; the others rest.            *)
(***************************************************************************)
CodecIdle == cpc = "idle" /\ cin = NoValue /\ cmid = NoValue /\ cout = NoValue
ProcIdle ==
    /\ ppc = "idle"
    /\ p_raw = EmptyFrame
    /\ p_mapping = FullMapping
    /\ p_out1 = NoOutcome
    /\ p_out2 = NoOutcome
    /\ p_filter = NoFilter
NoSide ==
    [start |-> 0, end |-> 0, picked |-> {}, filtered |-> EmptyFrame, dated |-> EmptyFrame,
     result |-> EmptyFrame, error |-> FALSE, msgs |-> {}]
NoAgg == [by |-> "", shown |-> FALSE, rows |-> <<>>]
AnalysisIdle == apc = "idle" /\ a_df = EmptyFrame /\ a_side = NoSide /\ a_agg = NoAgg
\* the FIT session before its first run
FitFresh ==
    /\ f_files = <<>>
    /\ f_fit_df = EmptyFrame
    /\ f_fit_dfs_list = <<>>
    /\ f_messages = {}
    /\ f_exception = ""
    /\ f_parsed = <<>>
    /\ f_kpi = NoKpis
    /\ f_cache = {}
    /\ f_executed = {}
    /\ f_same_selection = FALSE
FitIdle == fpc = "idle" /\ FitFresh
SessionFresh ==
    /\ uploaded_file = NoFile
    /\ ss_raw_df = EmptyFrame
    /\ ss_processed_df = EmptyFrame
    /\ ss_filtered_df = EmptyFrame
    /\ ss_column_mapping_user = EmptyMapping
    /\ ss_last_uploaded_file = NoFile
    /\ messages = {}
    /\ exception = ""
    /\ next_id = 1

(***************************************************************************)
(* The session specification: a browser session of the dashboard.          *)
(***************************************************************************)
Init == SessionFresh /\ CodecIdle /\ ProcIdle /\ AnalysisIdle /\ FitIdle

\* the user picks a file: the uploader gives it a fresh file id
UploadFile ==
    /\ next_id <= MaxUploads
    /\ \E u \in Uploads(next_id), start_date \in FilterDays, end_date \in FilterDays,
          picked \in SUBSET TypeChoices :
          Script(u, start_date, end_date, picked)
    /\ next_id' = next_id + 1
    /\ UNCHANGED <<codecVars, procVars, analysisVars, fitVars>>

\* the user removes the file from the uploader
RemoveFile ==
    /\ uploaded_file # NoFile
    /\ \E start_date \in FilterDays, end_date \in FilterDays,
          picked \in SUBSET TypeChoices :
          Script(NoFile, start_date, end_date, picked)
    /\ UNCHANGED <<next_id, codecVars, procVars, analysisVars, fitVars>>

\* any other interaction runs the script again with the same upload
Rerun ==
    /\ \E start_date \in FilterDays, end_date \in FilterDays,
          picked \in SUBSET TypeChoices :
          Script(uploaded_file, start_date, end_date, picked)
    /\ UNCHANGED <<next_id, codecVars, procVars, analysisVars, fitVars>>

Next == UploadFile \/ RemoveFile \/ Rerun

Spec == Init /\ [][Next]_vars

(***************************************************************************)
(* The runs specification: the runs of the script that follow each other   *)
(* in a session that holds a loaded file, from the state in which the run  *)
(* that loaded the file ended.  It chains the sidebar (lines 162-211), the *)
(* settings step (lines 279-332) and the guard of the overview (line 337)  *)
(* as the script orders them, with the options of the mapping's            *)
(* selectboxes taken as the cleaned column names; no run of the session    *)
(* specification gets that far, because line 264 ends it.                  *)
(***************************************************************************)
WalkCells ==
    << Str(Day2Text), Str(<<"Walk">>), Num(3), Num(100),
       Str(<<"3", "0", ":", "0", "0">>), Num(0), NaN, Str(<<"g">>) >>
\* tables of one or two activities, under either style of headers
RunTables ==
    {Table(h, <<a>>) : h \in HeaderStyles, a \in {GoodCells, WalkCells}}
        \cup {Table(h, <<a, b>>) : h \in HeaderStyles, a \in {GoodCells, WalkCells},
                                   b \in {GoodCells, WalkCells}}
\* what the selectboxes of the mapping hold: every field the file has a
\* column for, or a required field left empty
RunMappings == {FullMapping, [FullMapping EXCEPT !["steps"] = <<>>]}

\* lines 314-332: the processed dataset the settings step stores
Stored(processed, msgs) == [processed |-> processed, msgs |-> msgs]
ProcessedOutcome(out) ==
    IF out.k = "frame" /\ ~DfEmpty(out.df) THEN Stored(out.df, {"success_processed"})
    ELSE IF out.k = "frame" THEN Stored(EmptyFrame, {"error_processed_empty"})
    ELSE Stored(EmptyFrame, {"error_processing", "warning_check_selection"})
SettingsStep(raw_df, mapping) ==
    IF ~AllRequiredMapped(mapping)
    THEN Stored(EmptyFrame, {"warning_required_mapping"})
    ELSE ProcessedOutcome(process_mapped_data(raw_df, mapping))

\* lines 337-341: the overview is shown for a non-empty filtered_df
OverviewMessages(filtered_df) == IF DfEmpty(filtered_df) THEN {} ELSE {"overview_shown"}

\* lines 162-360 of one run, on the outcomes of the sidebar and of the
\* settings step
RunOutcome(mapping, side, settings) ==
    /\ ss_filtered_df' = side.filtered
    /\ ss_column_mapping_user' = mapping
    /\ ss_processed_df' = settings.processed
    /\ messages' = {"success_loaded"} \cup side.msgs \cup settings.msgs
                      \cup OverviewMessages(side.filtered)
    /\ exception' = ""
    /\ UNCHANGED <<uploaded_file, ss_raw_df, ss_last_uploaded_file, next_id>>

\* the session after the run that loaded a file with rows
RunsInit ==
    /\ \E t \in RunTables :
          uploaded_file = [id |-> 1, name |-> <<"a", ".csv">>, readable |-> TRUE, df |-> t]
    /\ ss_raw_df = uploaded_file.df
    /\ ss_last_uploaded_file = uploaded_file
    /\ ss_processed_df = EmptyFrame
    /\ ss_filtered_df = EmptyFrame
    /\ ss_column_mapping_user = EmptyMapping
    /\ messages = {"success_loaded", "info_go_to_settings", "info_map_columns"}
    /\ exception = "TypeError"
    /\ next_id = 2
    /\ CodecIdle
    /\ ProcIdle
    /\ AnalysisIdle
    /\ FitIdle

\* the run's sidebar with the dates and the types the widgets hold
RunSidebar(mapping, settings) ==
    \E start_date \in FilterDays, end_date \in FilterDays, picked \in SUBSET TypeChoices :
        RunOutcome(mapping,
                   SidebarLoaded(ss_processed_df, ss_filtered_df,
                                 start_date, end_date, picked),
                   settings)

\* a run with the widgets holding the dates, the types and the mapping
RunWithData ==
    /\ \E mapping \in RunMappings :
          RunSidebar(mapping, SettingsStep(ss_raw_df, mapping))
    /\ UNCHANGED <<codecVars, procVars, analysisVars, fitVars>>

RunsNext == RunWithData

SpecRuns == RunsInit /\ [][RunsNext]_vars

(***************************************************************************)
(* The process specification: process_mapped_data applied to a raw table   *)
(* and a mapping, applied again, and the date filter applied to a          *)
(* non-empty result.                                                       *)
(***************************************************************************)
ProcInit ==
    /\ ppc = "in"
    /\ \/ /\ \E n \in 0..MaxRows : \E cs \in [1..n -> FewRowCells] :
                p_raw = Table(CleanHeaders, cs)
          /\ p_mapping = FullMapping
       \/ /\ \E h \in HeaderStyles, n \in 0..1 : \E cs \in [1..n -> RowCells] :
                p_raw = Table(h, cs)
          /\ p_mapping \in MappingVariants \cup {FullMapping}
    /\ p_out1 = NoOutcome
    /\ p_out2 = NoOutcome
    /\ p_filter = NoFilter
    /\ CodecIdle
    /\ SessionFresh
    /\ AnalysisIdle
    /\ FitIdle

ProcessFirst ==
    /\ ppc = "in"
    /\ LET res == process_mapped_data(p_raw, p_mapping)
       IN /\ p_out1' = res
          /\ p_raw' = res.caller
    /\ ppc' = "once"
    /\ UNCHANGED <<p_mapping, p_out2, p_filter, codecVars, sessionVars, analysisVars, fitVars>>

ProcessAgain ==
    /\ ppc = "once"
    /\ LET res == process_mapped_data(p_raw, p_mapping)
       IN /\ p_out2' = res
          /\ p_raw' = res.caller
    /\ ppc' = "twice"
    /\ UNCHANGED <<p_mapping, p_out1, p_filter, codecVars, sessionVars, analysisVars, fitVars>>

FilterByDate ==
    /\ ppc = "once"
    /\ p_out1.k = "frame"
    /\ ~DfEmpty(p_out1.df)
    /\ \E start_date \in FilterDays, end_date \in FilterDays :
          LET res == DateRangeFilter(p_out1.df, start_date, end_date)
          IN p_filter' = [start |-> start_date, end |-> end_date,
                          error |-> res.error, df |-> res.df]
    /\ ppc' = "filtered"
    /\ UNCHANGED <<p_raw, p_mapping, p_out1, p_out2, codecVars, sessionVars, analysisVars, fitVars>>

ProcNext == ProcessFirst \/ ProcessAgain \/ FilterByDate

SpecProcess == ProcInit /\ [][ProcNext]_vars

(***************************************************************************)
(* The analysis specification: the sidebar's filters and the period        *)
(* aggregation applied to a processed dataset.                             *)
(***************************************************************************)
WeekA == DaysFromCivil(2024, 12, 30)    \* a Monday
WeekAWed == DaysFromCivil(2025, 1, 1)   \* the Wednesday of the same week
WeekB == DaysFromCivil(2025, 1, 6)      \* the next Monday
AnalysisDayTexts ==
    { <<"2", "0", "2", "4", "-", "1", "2", "-", "3", "0">>,
      <<"2", "0", "2", "5", "-", "0", "1", "-", "0", "1">>,
      <<"2", "0", "2", "5", "-", "0", "1", "-", "0", "6">> }
\* type, distance, duration, heart rate of an activity
ActivityKinds ==
    { << Str(<<"Run">>), Str(<<"1", "2", ",", "5">>),
         Str(<<"0", "1", ":", "0", "2", ":", "0", "3">>), Num(150) >>,
      << Str(<<"Walk">>), Num(3), Str(<<"3", "0", ":", "0", "0">>), Num(0) >>,
      << Str(<<"Run">>), Str(<<"0", ",", "2", "5">>), Str(<<"5", ":", "3", "0">>), Num(125) >> }
AnalysisRowCells ==
    { << Str(d), a[1], a[2], Num(300), a[3], a[4], NaN, NaN >> :
        d \in AnalysisDayTexts, a \in ActivityKinds }
AnalysisDays == {WeekA, WeekB}

AnalysisInit ==
    /\ apc = "in"
    /\ \E n \in 1..MaxActivities : \E cs \in [1..n -> AnalysisRowCells] :
          a_df = process_mapped_data(Table(CleanHeaders, cs), FullMapping).df
    /\ a_side = NoSide
    /\ a_agg = NoAgg
    /\ CodecIdle
    /\ ProcIdle
    /\ SessionFresh
    /\ FitIdle

\* the sidebar's filters with the dates and types the user picked
ApplyFilters ==
    /\ apc = "in"
    /\ \E start_date \in AnalysisDays, end_date \in AnalysisDays,
          picked \in SUBSET TypeChoices :
          LET side == SidebarFilters(a_df, EmptyFrame, start_date, end_date, picked)
          IN a_side' = [start |-> start_date, end |-> end_date,
                        picked |-> Selection(side.dated, picked),
                        filtered |-> side.filtered, dated |-> side.dated,
                        result |-> side.result, error |-> side.error,
                        msgs |-> side.msgs]
    /\ apc' = "filtered"
    /\ UNCHANGED <<a_df, a_agg, codecVars, procVars, sessionVars, fitVars>>

\* the period tab with the period the user chose
Aggregate ==
    /\ apc = "in"
    /\ \E by \in {"year_week", "year_month"} :
          a_agg' = [by |-> by, shown |-> AggregationGate(a_df),
                    rows |-> IF AggregationGate(a_df)
                             THEN period_aggregation(a_df, N(by)) ELSE <<>>]
    /\ apc' = "aggregated"
    /\ UNCHANGED <<a_df, a_side, codecVars, procVars, sessionVars, fitVars>>

AnalysisNext == ApplyFilters \/ Aggregate

SpecAnalysis == AnalysisInit /\ [][AnalysisNext]_vars

(***************************************************************************)
(* The FIT dashboard's script (LeesMoreFit.py:127-203), run once per user  *)
(* event with the uploader holding files.  parse_fit_file catches every    *)
(* exception of its body; a call that let one through would end the run at *)
(* line 149, with the list of line 144 reset and fit_df as it was.         *)
(***************************************************************************)
FrameOf(entry) == entry.df
FramesOf(list) == [i \in 1..Len(list) |-> FrameOf(list[i])]

\* lines 154-162 and 176-203 on the results kept
StoreParsed(calls, all_dfs, combined) ==
    /\ f_fit_df' = combined
    /\ f_fit_dfs_list' = all_dfs
    /\ f_messages' =
          {"info_processing"} \cup CallMessages(calls, Len(calls))
             \cup (IF all_dfs # <<>> THEN {"success_parsed"}
                   ELSE {"warning_no_usable_data", "info_upload_main"})
    /\ f_exception' = ""
    /\ f_parsed' = calls
    /\ f_kpi' = MainContent(combined)

\* line 149 let an exception through in call number n
RunEnded(calls, n) ==
    /\ UNCHANGED f_fit_df
    /\ f_fit_dfs_list' = <<>>
    /\ f_messages' = {"info_processing"} \cup CallMessages(calls, n - 1)
    /\ f_exception' = calls[n].exc
    /\ f_parsed' = SubSeq(calls, 1, n)
    /\ f_kpi' = NoKpis

\* pd.concat of the kept results, an empty frame for none
Combined(all_dfs) == IF all_dfs # <<>> THEN Concat(FramesOf(all_dfs)) ELSE EmptyFrame
KeepParsed(calls, all_dfs) == StoreParsed(calls, all_dfs, Combined(all_dfs))

\* lines 144-162: the new selection is parsed
ParseSelection(files, calls) ==
    IF FirstRaise(calls) # 0 THEN RunEnded(calls, FirstRaise(calls))
    ELSE KeepParsed(calls, AllDfs(files, calls))

FitScript(files) ==
    /\ f_files' = files
    /\ IF files = <<>>
       THEN \* lines 166-170
            /\ f_fit_df' = EmptyFrame
            /\ f_fit_dfs_list' = <<>>
            /\ f_messages' = {"info_upload", "info_upload_main"}
            /\ f_exception' = ""
            /\ f_parsed' = <<>>
            /\ f_kpi' = NoKpis
       ELSE IF FileNamesOf(files) = PreviousNames(f_fit_dfs_list)
       THEN \* lines 163-165: the selection counts as the one already loaded
            /\ UNCHANGED <<f_fit_df, f_fit_dfs_list>>
            /\ f_messages' =
                  IF DfEmpty(f_fit_df) THEN {"info_upload_main"} ELSE {"success_already_loaded"}
            /\ f_exception' = ""
            /\ f_parsed' = <<>>
            /\ f_kpi' = MainContent(f_fit_df)
       ELSE ParseSelection(files, Calls(files))

\* the calls of line 149 a run makes: all of them, or those up to the first
\* one an exception leaves
CallsMade(calls) == IF FirstRaise(calls) # 0 THEN FirstRaise(calls) ELSE Len(calls)
\* the calls that returned: st.cache_data stores their results
CallsStored(calls) == IF FirstRaise(calls) # 0 THEN FirstRaise(calls) - 1 ELSE Len(calls)

\* line 149 under st.cache_data: the first n calls were made, the results of
\* the first m, which returned, are stored
CachedCalls(files, n, m) ==
    /\ f_executed' = CacheMisses(SubSeq(files, 1, n), f_cache)
    /\ f_cache' = f_cache \cup FilesOf(SubSeq(files, 1, m))

\* what a run of the script does with the store of st.cache_data: lines
\* 144-152 call parse_fit_file for every file, the other branches for none
CacheOfRun(files) ==
    /\ f_same_selection' = (files = f_files)
    /\ IF files = <<>> \/ FileNamesOf(files) = PreviousNames(f_fit_dfs_list)
       THEN f_executed' = {} /\ UNCHANGED f_cache
       ELSE CachedCalls(files, CallsMade(Calls(files)), CallsStored(Calls(files)))

(***************************************************************************)
(* Inputs of the FIT specifications.                                       *)
(***************************************************************************)

T1 == Ts(DaysFromCivil(2025, 1, 1))
T2 == Ts(DaysFromCivil(2025, 1, 2))
T3 == Ts(DaysFromCivil(2025, 1, 3))
NoTime == {Absent, NoValue, Str(<<"x">>)}
Record(t, hr) == [timestamp |-> t, heart_rate |-> hr]
RecordKinds == {Record(t, hr) : t \in NoTime \cup {T1, T2, T3}, hr \in {Absent, Num(120)}}

Session(sport, calories, speed, gain) ==
    [sport |-> sport, total_calories |-> calories, max_speed |-> speed,
     total_elevation_gain |-> gain]
EBike == Str(<<"e", "_", "b", "i", "k", "e">>)
FirstSessionKinds ==
    {Session(sport, calories, speed, gain) :
        sport \in {Absent, NoValue, EBike}, calories \in {Absent, NoValue, Num(500)},
        speed \in {Absent, NoValue, Norm(25, 1)}, gain \in {Absent, NoValue, Num(100)}}
LaterSessionKinds ==
    { Session(Str(<<"r", "u", "n">>), Num(900), Num(9), Num(7)),
      Session(Absent, Num(900), NoValue, Absent),
      Session(NoValue, Absent, Num(9), NoValue) }
SessionsOf(first, later) == <<first>> \o later

FitFile(name, readable, records, sessions) ==
    [name |-> name, readable |-> readable, records |-> records, sessions |-> sessions]
NameA == <<"a", ".", "f", "i", "t">>
NameB == <<"b", ".", "f", "i", "t">>
NameC == <<"c", ".", "f", "i", "t">>
\* the files of a session: activities with and without heart-rate zeros,
\* two different files of one name, and files that give no sample
GoodA ==
    FitFile(NameA, TRUE, <<Record(T2, Num(120)), Record(T1, Num(0))>>,
            <<Session(EBike, Num(500), Norm(25, 1), Num(100))>>)
OtherA == FitFile(NameA, TRUE, <<Record(T3, Num(150))>>, <<>>)
GoodB == FitFile(NameB, TRUE, <<Record(T1, Num(150)), Record(NoValue, Num(120))>>, <<>>)
NoTimestampField == FitFile(NameC, TRUE, <<Record(Absent, Num(120))>>, <<>>)
NoValidTime ==
    FitFile(NameC, TRUE, <<Record(NoValue, Num(120)), Record(Str(<<"x">>), Absent)>>, <<>>)
NoRecords == FitFile(NameC, TRUE, <<>>, <<Session(EBike, Num(500), Absent, Absent)>>)
NoTimeA == FitFile(NameA, TRUE, <<Record(NoValue, Num(120))>>, <<>>)
Unreadable == FitFile(NameC, FALSE, <<>>, <<>>)
FitFiles ==
    {GoodA, OtherA, GoodB, NoTimestampField, NoValidTime, NoRecords, NoTimeA, Unreadable}

(***************************************************************************)
(* The FIT session specification: a browser session of the FIT dashboard.  *)
(* The store of st.cache_data changes no value a call returns; this        *)
(* specification leaves it unrecorded, SpecFitCache records it.            *)
(***************************************************************************)
FitInit ==
    /\ fpc = "session"
    /\ FitFresh
    /\ CodecIdle
    /\ ProcIdle
    /\ SessionFresh
    /\ AnalysisIdle

\* the user adds files to the uploader
AddFiles ==
    /\ fpc = "session"
    /\ \E n \in 1..(MaxFiles - Len(f_files)) : \E added \in [1..n -> FitFiles] :
          FitScript(f_files \o added)
    /\ UNCHANGED <<fpc, cacheVars, codecVars, procVars, sessionVars, analysisVars>>

\* the user removes one file from the uploader
RemoveFitFile ==
    /\ fpc = "session"
    /\ \E i \in 1..Len(f_files) :
          FitScript(SubSeq(f_files, 1, i - 1) \o SubSeq(f_files, i + 1, Len(f_files)))
    /\ UNCHANGED <<fpc, cacheVars, codecVars, procVars, sessionVars, analysisVars>>

\* any other interaction runs the script again with the same files
FitRerun ==
    /\ fpc = "session"
    /\ FitScript(f_files)
    /\ UNCHANGED <<fpc, cacheVars, codecVars, procVars, sessionVars, analysisVars>>

FitNext == AddFiles \/ RemoveFitFile \/ FitRerun

SpecFit == FitInit /\ [][FitNext]_vars

(***************************************************************************)
(* The FIT cache specification: the same session with the store of         *)
(* st.cache_data (line 27) recorded: which files' results it holds and for *)
(* which files the body of parse_fit_file ran in the last run.             *)
(***************************************************************************)
\* files that give rows, two of one name, and a file that fails to parse
CachedFitFiles == {GoodA, OtherA, GoodB, NoValidTime}

FitCacheInit ==
    /\ fpc = "cached"
    /\ FitFresh
    /\ CodecIdle
    /\ ProcIdle
    /\ SessionFresh
    /\ AnalysisIdle

\* a run of the script with the selection files
CachedRun(files) == FitScript(files) /\ CacheOfRun(files)

CachedAddFiles ==
    /\ fpc = "cached"
    /\ \E n \in 1..(MaxFiles - Len(f_files)) : \E added \in [1..n -> CachedFitFiles] :
          CachedRun(f_files \o added)
    /\ UNCHANGED <<fpc, codecVars, procVars, sessionVars, analysisVars>>

CachedRemoveFile ==
    /\ fpc = "cached"
    /\ \E i \in 1..Len(f_files) :
          CachedRun(SubSeq(f_files, 1, i - 1) \o SubSeq(f_files, i + 1, Len(f_files)))
    /\ UNCHANGED <<fpc, codecVars, procVars, sessionVars, analysisVars>>

CachedRerun ==
    /\ fpc = "cached"
    /\ CachedRun(f_files)
    /\ UNCHANGED <<fpc, codecVars, procVars, sessionVars, analysisVars>>

FitCacheNext == CachedAddFiles \/ CachedRemoveFile \/ CachedRerun

SpecFitCache == FitCacheInit /\ [][FitCacheNext]_vars

(***************************************************************************)
(* The FIT parse specification: parse_fit_file on one file.                *)
(***************************************************************************)
FitParseInit ==
    /\ fpc = "in"
    /\ \/ \E n \in 0..MaxRecords : \E rs \in [1..n -> RecordKinds] :
             f_files = <<FitFile(NameA, TRUE, rs, <<>>)>>
       \/ \E first \in FirstSessionKinds :
             \E m \in 0..(MaxSessions - 1) : \E later \in [1..m -> LaterSessionKinds] :
                f_files = <<FitFile(NameA, TRUE, <<Record(T1, Num(120))>>,
                                    SessionsOf(first, later))>>
       \/ f_files = <<Unreadable>>
    /\ f_fit_df = EmptyFrame
    /\ f_fit_dfs_list = <<>>
    /\ f_messages = {}
    /\ f_exception = ""
    /\ f_parsed = <<>>
    /\ f_kpi = NoKpis
    /\ f_cache = {}
    /\ f_executed = {}
    /\ f_same_selection = FALSE
    /\ CodecIdle
    /\ ProcIdle
    /\ SessionFresh
    /\ AnalysisIdle

\* the call parse_fit_file(uploaded_file.read(), uploaded_file.name)
ParseFitFile ==
    /\ fpc = "in"
    /\ f_parsed' = <<parse_fit_file(f_files[1])>>
    /\ f_messages' = f_parsed'[1].msgs
    /\ f_exception' = f_parsed'[1].exc
    /\ fpc' = "parsed"
    /\ UNCHANGED <<f_files, f_fit_df, f_fit_dfs_list, f_kpi, cacheVars,
                   codecVars, procVars, sessionVars, analysisVars>>

\* the overview's figures for the parsed file as the whole dataset
OverviewOfParsed ==
    /\ fpc = "parsed"
    /\ f_kpi' = MainContent(f_parsed[1].df)
    /\ fpc' = "shown"
    /\ UNCHANGED <<f_files, f_fit_df, f_fit_dfs_list, f_messages, f_exception, f_parsed,
                   cacheVars,
                   codecVars, procVars, sessionVars, analysisVars>>

FitParseNext == ParseFitFile \/ OverviewOfParsed

SpecFitParse == FitParseInit /\ [][FitParseNext]_vars

(***************************************************************************)
(* The codec specification: one function applied to an input, then the     *)
(* other applied to its result.                                            *)
(***************************************************************************)
CodecInit ==
    /\ \/ cpc = "parse_in" /\ \E k \in 1..MaxParts : cin \in FieldTexts(k)
       \/ cpc = "parse_in" /\ cin \in FixedParseInputs
       \/ cpc = "format_in" /\ cin \in FormatInputs
    /\ cmid = NoValue
    /\ cout = NoValue
    /\ ProcIdle
    /\ SessionFresh
    /\ AnalysisIdle
    /\ FitIdle

ParseTime ==
    /\ cpc = "parse_in"
    /\ cmid' = parse_time_to_seconds(cin)
    /\ cpc' = "parsed"
    /\ UNCHANGED <<cin, cout, procVars, sessionVars, analysisVars, fitVars>>

FormatAfterParse ==
    /\ cpc = "parsed"
    /\ cout' = format_duration(cmid)
    /\ cpc' = "done_pf"
    /\ UNCHANGED <<cin, cmid, procVars, sessionVars, analysisVars, fitVars>>

FormatDuration ==
    /\ cpc = "format_in"
    /\ cmid' = format_duration(cin)
    /\ cpc' = "formatted"
    /\ UNCHANGED <<cin, cout, procVars, sessionVars, analysisVars, fitVars>>

ParseAfterFormat ==
    /\ cpc = "formatted"
    /\ cout' = parse_time_to_seconds(cmid)
    /\ cpc' = "done_fp"
    /\ UNCHANGED <<cin, cmid, procVars, sessionVars, analysisVars, fitVars>>

CodecNext == ParseTime \/ FormatAfterParse \/ FormatDuration \/ ParseAfterFormat

SpecCodec == CodecInit /\ [][CodecNext]_vars

(***************************************************************************)
(* Claims about the duration codec (checked under SpecCodec).              *)
(***************************************************************************)
AllDigits(f) == \A i \in 1..Len(f) : IsDigit(f[i])
\* an integer literal: digits, or '-' and digits
IsIntField(f) ==
    /\ f # <<>>
    /\ IF f[1] = "-" THEN Len(f) > 1 /\ AllDigits(Tail(f)) ELSE AllDigits(f)

RECURSIVE PlaceSum(_, _)
\* the value of a digit text by place values: sum of digit * 10^place
PlaceSum(ds, i) ==
    IF i > Len(ds) THEN 0 ELSE DigitVal(ds[i]) * Pow10(Len(ds) - i) + PlaceSum(ds, i + 1)
IntFieldValue(f) == IF f[1] = "-" THEN -PlaceSum(Tail(f), 1) ELSE PlaceSum(f, 1)

\* a decimal literal: an optional '-', digits with at most one '.'
Unsigned(f) == IF f # <<>> /\ f[1] = "-" THEN Tail(f) ELSE f
IsNumField(f) ==
    LET b == Unsigned(f)
    IN /\ \E i \in 1..Len(b) : IsDigit(b[i])
       /\ \A i \in 1..Len(b) : IsDigit(b[i]) \/ b[i] = "."
       /\ \A i, j \in 1..Len(b) : (b[i] = "." /\ b[j] = ".") => i = j
NumFieldValue(f) ==
    LET b == Unsigned(f)
        p == Split(b, ".")
        ip == p[1]
        fp == IF Len(p) > 1 THEN p[2] ELSE <<>>
        sgn == IF b = f THEN 1 ELSE -1
    IN Norm(sgn * (PlaceSum(ip, 1) * Pow10(Len(fp)) + PlaceSum(fp, 1)), Len(fp))

ExpectedSeconds(c) ==
    IF c.k # "str" THEN Num(0)
    ELSE LET p == Split(c.s, ":")
             v(i) == IntFieldValue(p[i])
         IN IF Len(p) = 3 /\ \A i \in 1..3 : IsIntField(p[i])
            THEN Num(v(1) * 3600 + v(2) * 60 + v(3))
            ELSE IF Len(p) = 2 /\ \A i \in 1..2 : IsIntField(p[i])
            THEN Num(v(1) * 60 + v(2))
            ELSE IF Len(p) = 1 /\ IsNumField(p[1])
            THEN NumFieldValue(p[1])
            ELSE Num(0)

\* C1: parse_time_to_seconds maps h:m:s to h*3600+m*60+s, m:s to m*60+s, one
\* numeric part to that number, and every other input (empty, null,
\* non-numeric, four or more parts) to 0; no exception escapes.  In
\* particular "01:02:03" -> 3723, "5:30" -> 330, "" -> 0, "garbage" -> 0.
C1_ParseTimeToSeconds ==
    cpc = "parsed" =>
        /\ cmid.k = "num"
        /\ cmid = ExpectedSeconds(cin)
        /\ cin = Str(<<"0", "1", ":", "0", "2", ":", "0", "3">>) => cmid = Num(3723)
        /\ cin = Str(<<"5", ":", "3", "0">>) => cmid = Num(330)
        /\ cin = Str(<<>>) => cmid = Num(0)
        /\ cin = Str(<<"g", "a", "r", "b", "a", "g", "e">>) => cmid = Num(0)
        /\ (cin.k = "str" /\ Len(Split(cin.s, ":")) >= 4) => cmid = Num(0)
        /\ cin.k # "str" => cmid = Num(0)

C1_Witness ==
    /\ cpc = "parsed"
    /\ cin = Str(<<"0", "1", ":", "0", "2", ":", "0", "3">>)
    /\ cmid = Num(3723)

\* canonical zero-padded HH:MM:SS: two-digit fields, minutes and seconds
\* below 60
IsCanonical(t) ==
    LET p == Split(t, ":")
    IN /\ Len(p) = 3
       /\ \A i \in 1..3 : Len(p[i]) = 2 /\ AllDigits(p[i])
       /\ PlaceSum(p[2], 1) < 60
       /\ PlaceSum(p[3], 1) < 60

\* C2: format_duration(parse_time_to_seconds(s)) = s for every canonical
\* zero-padded HH:MM:SS text s, and parse_time_to_seconds(format_duration(n))
\* = n for every non-negative integer n, hours never wrapped at 24.
C2_RoundTrip ==
    /\ (cpc = "done_pf" /\ cin.k = "str" /\ IsCanonical(cin.s)) => cout = cin
    /\ (cpc = "done_fp" /\ cin.k = "num" /\ cin.e = 0 /\ cin.n >= 0) => cout = cin

C2_Witness ==
    /\ cpc = "done_fp"
    /\ cin = Num(100 * 3600 + 59 * 60 + 59)
    /\ cmid = Str(<<"1", "0", "0", ":", "5", "9", ":", "5", "9">>)
    /\ cout = cin

ZeroDuration == Str(<<"0", "0", ":", "0", "0", ":", "0", "0">>)
\* zero-padded HH:MM:SS with non-negative fields, minutes and seconds 0..59
IsWellFormedDuration(x) ==
    /\ x.k = "str"
    /\ LET p == Split(x.s, ":")
       IN /\ Len(p) = 3
          /\ \A i \in 1..3 : Len(p[i]) >= 2 /\ AllDigits(p[i])
          /\ PlaceSum(p[2], 1) < 60
          /\ PlaceSum(p[3], 1) < 60

\* C3: format_duration returns exactly "00:00:00" for every input that is 0,
\* null/NaN or negative, and a zero-padded HH:MM:SS text with non-negative
\* fields (minutes and seconds 0..59) for every other input.
C3_FormatDurationDefaults ==
    cpc = "formatted" =>
        IF isna(cin) \/ cin.n <= 0 THEN cmid = ZeroDuration ELSE IsWellFormedDuration(cmid)

(***************************************************************************)
(* Claims about process_mapped_data and the date filter (checked under     *)
(* SpecProcess).  A row of the result is the raw row with the same index   *)
(* label.                                                                  *)
(***************************************************************************)
\* the canonical field is mapped to a column the raw table has
IsMapped(f) ==
    /\ p_mapping[f] # <<>>
    /\ \E c \in 1..Len(p_raw.cols) : CleanHeader(p_raw.cols[c]) = p_mapping[f]
\* the raw value of the field in the raw row with index label i
RawValue(i, f) ==
    p_raw.rows[i + 1].cells[
        CHOOSE c \in 1..Len(p_raw.cols) : CleanHeader(p_raw.cols[c]) = p_mapping[f]]
RowSet(df) == {df.rows[i] : i \in 1..Len(df.rows)}
IndexLabels(df) == [i \in 1..Len(df.rows) |-> df.rows[i].idx]

\* digits, one ',', digits
IsCommaDecimal(x) ==
    /\ x.k = "str"
    /\ \E c \in 2..(Len(x.s) - 1) :
          /\ x.s[c] = ","
          /\ AllDigits(SubSeq(x.s, 1, c - 1))
          /\ AllDigits(SubSeq(x.s, c + 1, Len(x.s)))
\* the number read with the comma as the decimal point
CommaDecimalValue(x) ==
    LET c == CHOOSE j \in 1..Len(x.s) : x.s[j] = ","
    IN Norm(PlaceSum(SubSeq(x.s, 1, c - 1) \o SubSeq(x.s, c + 1, Len(x.s)), 1),
            Len(x.s) - c)

IsMalformedDistance(x) ==
    isna(x) \/ (x.k = "str" /\ PyFloatOfStr(CommaToDot(x.s)).k = "raise")

\* C5: for every raw table in which some row's mapped distance value is
\* non-numeric or null, process_mapped_data completes, gives that row
\* distance_km = 0 and the other rows their parsed values.
C5_MalformedDistanceCoerced ==
    (/\ ppc = "once"
     /\ IsMapped("distance_km")
     /\ \E i \in 1..Len(p_raw.rows) : IsMalformedDistance(RawValue(i - 1, "distance_km")))
    => /\ p_out1.k = "frame"
       /\ \A r \in RowSet(p_out1.df) :
             LET raw == RawValue(r.idx, "distance_km")
                 got == Cell(p_out1.df, r, N("distance_km"))
             IN IF IsMalformedDistance(raw) THEN got = Num(0)
                ELSE IF IsCommaDecimal(raw) THEN got = CommaDecimalValue(raw)
                ELSE got = raw

\* the documented default of a canonical field's output column
DefaultOf(f) ==
    CASE f = "activity_type" -> Onbekend
      [] f = "date" -> NaT
      [] OTHER -> Num(0)
\* the output column that carries a canonical field
OutputColumn(f) ==
    CASE f = "duration_raw" -> "duration_seconds"
      [] f = "avg_pace_raw" -> "avg_pace_sec_per_km"
      [] f = "best_pace_raw" -> "best_pace_sec_per_km"
      [] OTHER -> f
DefaultedFields ==
    { "date", "activity_type", "distance_km", "calories_kcal", "steps",
      "avg_heart_rate_bpm", "duration_raw", "avg_pace_raw" }

\* C7: every canonical field whose mapping entry is empty or names a column
\* the raw table does not have is present in the output with its documented
\* default, and processing raises no error.
C7_UnmappedDefaults ==
    ppc = "once" =>
        \A f \in DefaultedFields :
            ~IsMapped(f) =>
                /\ p_out1.k = "frame"
                /\ HasCol(p_out1.df, N(OutputColumn(f)))
                /\ \A r \in RowSet(p_out1.df) :
                      Cell(p_out1.df, r, N(OutputColumn(f))) = DefaultOf(f)

DateParses(i) == IsMapped("date") /\ ToDatetimeCoerce(RawValue(i, "date")).k = "ts"
RawLabels == [i \in 1..Len(p_raw.rows) |-> i - 1]

C10_DateRangeInclusive ==
    (ppc = "filtered" /\ p_filter.start <= p_filter.end) =>
        /\ ~p_filter.error
        /\ RowSet(p_filter.df) =
              {r \in RowSet(p_out1.df) :
                  /\ p_filter.start <= Cell(p_out1.df, r, N("date")).n
                  /\ Cell(p_out1.df, r, N("date")).n <= p_filter.end}
        /\ \A r \in RowSet(p_filter.df) : Cell(p_filter.df, r, N("date")).k = "ts"

C10_Witness ==
    /\ ppc = "filtered"
    /\ p_filter.start = Day1
    /\ p_filter.end = Day2
    /\ Len(p_filter.df.rows) = 2
    /\ \E r \in RowSet(p_filter.df) : Cell(p_filter.df, r, N("date")).n = Day1
    /\ \E r \in RowSet(p_filter.df) : Cell(p_filter.df, r, N("date")).n = Day2

\* C11: with start > end the date filter gives an empty dataset and signals
\* the invalid range; the filter raises nothing (its outcome is a value).
C11_InvalidRangeEmpty ==
    (ppc = "filtered" /\ p_filter.start > p_filter.end) =>
        /\ p_filter.error
        /\ p_filter.df = EmptyFrame
        /\ DfEmpty(p_filter.df)

C11_Witness ==
    /\ ppc = "filtered"
    /\ p_filter.start = Day2
    /\ p_filter.end = Day1
    /\ p_filter.error
    /\ Len(p_out1.df.rows) = 2
    /\ DfEmpty(p_filter.df)

(***************************************************************************)
(* Claims about the filters and the period aggregation (checked under      *)
(* SpecAnalysis).                                                          *)
(***************************************************************************)
TypeOf(df, r) == Cell(df, r, N("activity_type"))

\* C12: with 'Alle' among the selected types, alone or with others, the
\* date-filtered rows pass through unchanged; otherwise the result is
\* exactly the rows whose activity_type is selected, none for an empty
\* selection.
C12_ActivityTypeFilter ==
    apc = "filtered" =>
        IF Alle \in a_side.picked
        THEN a_side.result = a_side.dated
        ELSE /\ a_side.result.cols = a_side.dated.cols
             /\ a_side.result.rows =
                   SelectSeq(a_side.dated.rows,
                             LAMBDA r : /\ TypeOf(a_side.dated, r).k = "str"
                                        /\ TypeOf(a_side.dated, r).s \in a_side.picked)
             /\ a_side.picked = {} => a_side.result.rows = <<>>

C12_Witness ==
    /\ apc = "filtered"
    /\ a_side.picked = {<<"Walk">>}
    /\ Len(a_side.dated.rows) = 3
    /\ Len(a_side.result.rows) = 1
    /\ TypeOf(a_side.result, a_side.result.rows[1]) = Str(<<"Walk">>)

\* the Monday of the week of a row's date
MondayOf(r) == Cell(a_df, r, N("date")).n - Weekday(Cell(a_df, r, N("date")).n)
\* the rows of the dataset whose date lies in the week that starts on monday
WeekRows(monday) == SelectSeq(a_df.rows, LAMBDA r : MondayOf(r) = monday)
Mondays == {MondayOf(r) : r \in RowSet(a_df)}
RECURSIVE ColumnTotal(_, _)
\* the sum of a column over rows of the dataset
ColumnTotal(rows, name) ==
    IF rows = <<>> THEN Num(0)
    ELSE AddNum(Cell(a_df, rows[1], name), ColumnTotal(Tail(rows), name))

\* C13: two activities get the same year_week key if and only if their dates
\* lie in the same Monday-to-Sunday week, also across a year boundary; the
\* weekly table has exactly one row per such week, with the sum of the
\* week's distances as total_distance.
C13_WeeklyGrouping ==
    (apc = "aggregated" /\ a_agg.by = "year_week" /\ a_agg.shown) =>
        /\ \A r1 \in RowSet(a_df), r2 \in RowSet(a_df) :
              (Cell(a_df, r1, N("year_week")) = Cell(a_df, r2, N("year_week")))
                  <=> (MondayOf(r1) = MondayOf(r2))
        /\ Len(a_agg.rows) = Cardinality(Mondays)
        /\ \A monday \in Mondays :
              \E i \in 1..Len(a_agg.rows) :
                 /\ a_agg.rows[i].week_start = Ts(monday)
                 /\ a_agg.rows[i].total_distance = ColumnTotal(WeekRows(monday), N("distance_km"))

\* the rows of the dataset that carry the period key of an aggregation row
PeriodRows(row) ==
    SelectSeq(a_df.rows, LAMBDA r : Cell(a_df, r, N(a_agg.by)) = row.Periode)
\* of those, the rows with a positive heart rate
PositiveRows(row) ==
    SelectSeq(PeriodRows(row),
              LAMBDA r : Cell(a_df, r, N("avg_heart_rate_bpm")).k = "num"
                         /\ Cell(a_df, r, N("avg_heart_rate_bpm")).n > 0)
\* m is the mean of the column over the rows: m * count = total
IsMeanOf(m, rows, name) ==
    /\ m.k = "frac"
    /\ m.p * Len(rows) * Pow10(ColumnTotal(rows, name).e)
           = ColumnTotal(rows, name).n * m.q

\* C14: the period table has exactly one row per period key that occurs in
\* the dataset and none for any other period; a row's totals are the sums and
\* its averages the means of distance and duration over the period's
\* activities, and its heart rate is the mean over the activities with a
\* heart rate above 0, shown as 0 when the period has none.
C14_PeriodAggregation ==
    (apc = "aggregated" /\ a_agg.shown) =>
        /\ {a_agg.rows[i].Periode : i \in 1..Len(a_agg.rows)}
              = {Cell(a_df, r, N(a_agg.by)) : r \in RowSet(a_df)}
        /\ \A i \in 1..Len(a_agg.rows), j \in 1..Len(a_agg.rows) :
              a_agg.rows[i].Periode = a_agg.rows[j].Periode => i = j
        /\ \A i \in 1..Len(a_agg.rows) :
              LET row == a_agg.rows[i]
              IN /\ PeriodRows(row) # <<>>
                 /\ row.total_distance = ColumnTotal(PeriodRows(row), N("distance_km"))
                 /\ row.total_duration = ColumnTotal(PeriodRows(row), N("duration_seconds"))
                 /\ IsMeanOf(row.avg_distance, PeriodRows(row), N("distance_km"))
                 /\ IsMeanOf(row.avg_duration, PeriodRows(row), N("duration_seconds"))
                 /\ IF PositiveRows(row) = <<>>
                    THEN row.avg_heart_rate = NaN /\ row.shown_heart_rate = 0
                    ELSE /\ IsMeanOf(row.avg_heart_rate, PositiveRows(row),
                                     N("avg_heart_rate_bpm"))
                         /\ row.shown_heart_rate = RoundShown(row.avg_heart_rate)

\* a week with a run at 150 bpm and a walk without a reading, and a second
\* week with only a walk
C14_Witness ==
    /\ apc = "aggregated" /\ a_agg.shown /\ a_agg.by = "year_week"
    /\ Len(a_df.rows) = 3 /\ Len(a_agg.rows) = 2
    /\ \E i \in 1..2 :
          /\ Len(PeriodRows(a_agg.rows[i])) = 2
          /\ Len(PositiveRows(a_agg.rows[i])) = 1
          /\ a_agg.rows[i].avg_heart_rate = Frac(150, 1)
          /\ a_agg.rows[i].total_distance = Norm(155, 1)
          /\ a_agg.rows[i].avg_distance = Frac(31, 4)
    /\ \E j \in 1..2 :
          /\ PositiveRows(a_agg.rows[j]) = <<>>
          /\ a_agg.rows[j].shown_heart_rate = 0

(***************************************************************************)
(* Claims about a session of the dashboard (checked under Spec).           *)
(***************************************************************************)
\* the last run loaded, or had loaded, a non-empty table from the upload
RunHadData ==
    /\ uploaded_file # NoFile
    /\ SameUpload(uploaded_file, ss_last_uploaded_file)
    /\ ss_raw_df # PyNone
    /\ ss_raw_df # EmptyFrame
    /\ ~DfEmpty(ss_raw_df)

\* C6: the processed dataset is non-empty only if every required field is
\* mapped; a run with a required field unmapped ends with an empty processed
\* dataset and the mapping warning, and no unhandled exception.
C6_RequiredMappingGate ==
    /\ (ss_processed_df # EmptyFrame) => AllRequiredMapped(ss_column_mapping_user)
    /\ (RunHadData /\ ~AllRequiredMapped(ss_column_mapping_user)) =>
          /\ ss_processed_df = EmptyFrame
          /\ "warning_required_mapping" \in messages
          /\ exception = ""

\* an empty dataset: a frame without rows or without columns
IsEmptyDataset(x) == x # PyNone /\ DfEmpty(x)

\* C19: a run whose uploaded file cannot be loaded (its extension is
\* rejected, or reading its content fails) shows an error message and ends
\* without an unhandled exception, with empty raw, processed and filtered
\* datasets.
C19_UnreadableFile ==
    (uploaded_file # NoFile /\ load_data(uploaded_file).k # "frame") =>
        /\ exception = ""
        /\ messages \cap {"error_bad_format", "error_empty_file"} # {}
        /\ IsEmptyDataset(ss_raw_df)
        /\ IsEmptyDataset(ss_processed_df)
        /\ IsEmptyDataset(ss_filtered_df)

(***************************************************************************)
(* Claims about parse_fit_file (checked under SpecFitParse).               *)
(***************************************************************************)
ParsedFile == f_files[1]
ParsedFrame == f_parsed[1].df
\* the value of a column in the first row of the parsed frame
Shown(name) == Cell(ParsedFrame, ParsedFrame.rows[1], N(name))
\* the columns of lines 115-118 hold one value in every row
OneValue(name) ==
    \A r \in RowSet(ParsedFrame) : Cell(ParsedFrame, r, N(name)) = Shown(name)
Given(session, f) == session[f] # Absent /\ session[f] # NoValue
Unknown == Str(<<"O", "n", "b", "e", "k", "e", "n", "d">>)

\* C15: the activity type, the calories, the maximum speed (m/s times 3.6)
\* and the elevation gain of a parsed file are those of its first session
\* message, each the default (0, 'Onbekend') when that message does not
\* give it; without a session message all four are the defaults, and a later
\* session message changes nothing.
C15_FirstSessionOnly ==
    (fpc = "parsed" /\ ~DfEmpty(ParsedFrame)) =>
        /\ \A c \in {"Activiteitstype", "Totale_Calorieen", "Max_Snelheid_Activiteit",
                     "Totale_Stijging_Meters"} : OneValue(c)
        /\ IF ParsedFile.sessions = <<>>
           THEN /\ Shown("Activiteitstype") = Unknown
                /\ Shown("Totale_Calorieen") = Num(0)
                /\ Shown("Max_Snelheid_Activiteit") = Num(0)
                /\ Shown("Totale_Stijging_Meters") = Num(0)
           ELSE LET first == ParsedFile.sessions[1]
                IN /\ Shown("Activiteitstype") =
                         (IF Given(first, "sport")
                          THEN Str(Title(UnderscoreToSpace(first.sport.s))) ELSE Unknown)
                   /\ Shown("Totale_Calorieen") =
                         (IF Given(first, "total_calories")
                          THEN first.total_calories ELSE Num(0))
                   /\ IF Given(first, "max_speed")
                      THEN Shown("Max_Snelheid_Activiteit").n * Pow10(first.max_speed.e + 1)
                              = first.max_speed.n * 36
                                   * Pow10(Shown("Max_Snelheid_Activiteit").e)
                      ELSE Shown("Max_Snelheid_Activiteit") = Num(0)
                   /\ Shown("Totale_Stijging_Meters") =
                         (IF Given(first, "total_elevation_gain")
                          THEN first.total_elevation_gain ELSE Num(0))

\* a first session without sport and calories, followed by one that has both
C15_Witness ==
    /\ fpc = "parsed" /\ ~DfEmpty(ParsedFrame)
    /\ Len(ParsedFile.sessions) = 2
    /\ ParsedFile.sessions[1].sport = Absent
    /\ ParsedFile.sessions[1].total_calories = NoValue
    /\ ParsedFile.sessions[1].max_speed = Norm(25, 1)
    /\ ParsedFile.sessions[2].sport = Str(<<"r", "u", "n">>)
    /\ ParsedFile.sessions[2].total_calories = Num(900)
    /\ Shown("Activiteitstype") = Unknown
    /\ Shown("Totale_Calorieen") = Num(0)
    /\ Shown("Max_Snelheid_Activiteit") = Num(9)

\* the timestamp and the heart rate of a row, as a record message gives them
SampleOf(df, r) ==
    [timestamp |-> Cell(df, r, N("DatumTijd")),
     heart_rate |-> IF HasCol(df, N("Hartslag_bpm"))
                       /\ ~isna(Cell(df, r, N("Hartslag_bpm")))
                    THEN Cell(df, r, N("Hartslag_bpm")) ELSE Absent]
ValidRecords(file) == SelectSeq(file.records, LAMBDA rec : rec.timestamp.k = "ts")

\* C16: the samples of a parsed file are exactly its record messages with a
\* valid timestamp, each as often as the file has it, in ascending order of
\* the timestamps; the records without a timestamp, or with one that is no
\* time, are dropped.
C16_ValidSamplesSorted ==
    fpc = "parsed" =>
        /\ Len(ParsedFrame.rows) = Len(ValidRecords(ParsedFile))
        /\ \A i \in 1..Len(ParsedFrame.rows), j \in 1..Len(ParsedFrame.rows) :
              i < j => Cell(ParsedFrame, ParsedFrame.rows[i], N("DatumTijd")).n
                          <= Cell(ParsedFrame, ParsedFrame.rows[j], N("DatumTijd")).n
        /\ \A rec \in {ValidRecords(ParsedFile)[i] : i \in 1..Len(ValidRecords(ParsedFile))} :
              Cardinality({i \in 1..Len(ParsedFrame.rows) :
                              SampleOf(ParsedFrame, ParsedFrame.rows[i]) = rec})
                 = Cardinality({i \in 1..Len(ValidRecords(ParsedFile)) :
                                   ValidRecords(ParsedFile)[i] = rec})

\* three records, the second without a timestamp, the first later than the
\* third
C16_Witness ==
    /\ fpc = "parsed"
    /\ Len(ParsedFile.records) = 3
    /\ ParsedFile.records[1].timestamp = T2
    /\ ParsedFile.records[2].timestamp = Absent
    /\ ParsedFile.records[3].timestamp = T1
    /\ Len(ParsedFrame.rows) = 2
    /\ Cell(ParsedFrame, ParsedFrame.rows[1], N("DatumTijd")) = T1
    /\ Cell(ParsedFrame, ParsedFrame.rows[2], N("DatumTijd")) = T2

(***************************************************************************)
(* Claims about a session of the FIT dashboard (checked under SpecFit).    *)
(***************************************************************************)
\* the run parsed the files of the uploader
RanLoop == fpc = "session" /\ f_files # <<>> /\ f_parsed # <<>>
NoValidTimestamp(file) == ValidRecords(file) = <<>>
RECURSIVE RowCount(_)
RowCount(dfs) == IF dfs = <<>> THEN 0 ELSE Len(Head(dfs).rows) + RowCount(Tail(dfs))
\* the frames the calls returned, without that of call i
OtherFrames(i) ==
    [j \in 1..(Len(f_parsed) - 1) |-> IF j < i THEN f_parsed[j].df ELSE f_parsed[j + 1].df]

\* C17: for a file without a valid timestamp (no record message, no
\* timestamp field, no timestamp that is a time) parse_fit_file returns an
\* empty frame and shows a message, no exception leaves the call or ends the
\* run, and the combined dataset has the rows of the other files only and
\* the file's name as Activity_ID only from another file of that name.
C17_NoValidTimestamp ==
    RanLoop =>
        /\ f_exception = ""
        /\ Len(f_parsed) = Len(f_files)
        /\ \A i \in 1..Len(f_parsed) :
              NoValidTimestamp(f_files[i]) =>
                 /\ f_parsed[i].exc = ""
                 /\ DfEmpty(f_parsed[i].df)
                 /\ f_parsed[i].msgs # {}
                 /\ f_parsed[i].msgs \subseteq f_messages
                 /\ Len(f_fit_df.rows) = RowCount(OtherFrames(i))
                 /\ (\A j \in 1..Len(f_files) :
                        f_files[j].name = f_files[i].name => DfEmpty(f_parsed[j].df))
                       => \A r \in RowSet(f_fit_df) :
                             Cell(f_fit_df, r, N("Activity_ID")) # Str(f_files[i].name)

\* a file whose timestamps are no times, uploaded together with a good file
C17_Witness ==
    /\ RanLoop
    /\ f_files = <<NoValidTime, GoodB>>
    /\ f_exception = ""
    /\ DfEmpty(f_parsed[1].df)
    /\ "error_parse" \in f_messages
    /\ Len(f_fit_df.rows) = 1
    /\ Cell(f_fit_df, f_fit_df.rows[1], N("Activity_ID")) = Str(NameB)

\* C18: after a run with files in the uploader the combined dataset is the
\* concatenation, in upload order, of the parse results of the uploaded
\* files that parse to a non-empty result, each row tagged with its file's
\* name; a file that fails to parse leaves the others' rows in place.
C18_BatchConcatenation ==
    (fpc = "session" /\ f_files # <<>>) =>
        /\ f_exception = ""
        /\ f_fit_df = Combined(AllDfs(f_files, Calls(f_files)))

\* the mean of an activity's readings above 0
PositiveMeans(df, ids) == [i \in 1..Len(ids) |-> MeanOfPositive(HeartRates(df, ids[i]))]

\* C20: the average heart rate of the overview is computed over the samples
\* with a heart rate above 0 only: samples with heart rate 0 do not change
\* it.
C20_HeartRateExcludesZeros ==
    (fpc = "session" /\ f_kpi.shown /\ HasCol(f_fit_df, N("Hartslag_bpm"))) =>
        f_kpi.avg_heart_rate_combined
           = MeanOfMeans(PositiveMeans(f_fit_df, ActivityIds(f_fit_df)))

\* the parse of a selection of files: the concatenation of the results that
\* hold rows, an empty frame for none
SelectionParse(files) == Combined(AllDfs(files, Calls(files)))

\* C21: after every run the combined dataset of the session is the parse of
\* the files selected in that run, and empty when none is selected: no row
\* of a file that is no longer selected stays, also when a file is replaced
\* by another file of the same name.
C21_WholesaleReplacement ==
    fpc = "session" => f_fit_df = SelectionParse(f_files)

\* each activity's session value of a summary column: the value its first
\* row holds
SessionValues(df, ids, name) ==
    [i \in 1..Len(ids) |-> Cell(df, ActivityRows(df, ids[i]).rows[1], name)]
\* the sum over the activities of the session value
OncePerActivity(df, name) == SumCells(SessionValues(df, ActivityIds(df), name))

\* C27: the overview's total calories and total elevation gain are the sums,
\* over the distinct activities, of each activity's one session value,
\* however many samples the activity has.
C27_TotalsOncePerActivity ==
    (fpc = "session" /\ f_kpi.shown) =>
        /\ f_kpi.total_calories_combined
              = OncePerActivity(f_fit_df, N("Totale_Calorieen"))
        /\ f_kpi.total_elevation_gain_combined
              = OncePerActivity(f_fit_df, N("Totale_Stijging_Meters"))

\* C22: a run whose selection of files is that of the run before it parses
\* no file again and leaves the combined dataset as it was, also when files
\* of the selection had failed to parse.
C22_SameSelectionNotParsedAgain ==
    [][(fpc = "cached" /\ f_files' = f_files) =>
          (f_executed' = {} /\ f_fit_df' = f_fit_df)]_vars

\* the run went through the loop of line 147 with the selection of the run
\* before it, one file of which gave rows and one failed to parse
C22_Witness ==
    /\ fpc = "cached"
    /\ f_same_selection
    /\ "info_processing" \in f_messages
    /\ "error_parse" \in f_messages
    /\ ~DfEmpty(f_fit_df)
    /\ f_executed = {}

(***************************************************************************)
(* Further claims about process_mapped_data (checked under SpecProcess).   *)
(***************************************************************************)
Processed == ppc \in {"once", "twice", "filtered"} /\ p_out1.k = "frame"
\* a number that is not below 0
NonNegative(x) == x.k = "num" /\ x.n >= 0
\* a whole number
Whole(x) == x.k = "num" /\ x.e = 0

\* C23: whatever the raw values are, every row of the processed dataset has
\* a distance_km of at least 0, a whole number of duration_seconds of at
\* least 0, and average and best pace seconds of at least 0.
C23_NonNegative ==
    Processed =>
        \A r \in RowSet(p_out1.df) :
            /\ NonNegative(Cell(p_out1.df, r, N("distance_km")))
            /\ NonNegative(Cell(p_out1.df, r, N("duration_seconds")))
            /\ Whole(Cell(p_out1.df, r, N("duration_seconds")))
            /\ NonNegative(Cell(p_out1.df, r, N("avg_pace_sec_per_km")))
            /\ NonNegative(Cell(p_out1.df, r, N("best_pace_sec_per_km")))

\* the mapping entry of the field names a column of the cleaned raw table
Resolved(f) == p_mapping[f] # <<>> /\ HasCol(CleanColumns(p_raw), p_mapping[f])
\* the cell the raw table holds, in the field's mapped column, for the row
\* with index label idx
SourceCell(idx, f) ==
    Cell(CleanColumns(p_raw), CleanColumns(p_raw).rows[idx + 1], p_mapping[f])
\* the value process_mapped_data makes of a source cell of the field
Converted(f, x) ==
    CASE f = "date" -> ToDatetimeCoerce(x)
      [] f = "distance_km" -> FillNa0(DistanceCell(x))
      [] f \in {"calories_kcal", "steps", "avg_heart_rate_bpm"} -> FillNa0(ToNumericCoerce(x))
      [] OTHER -> x

\* C28: when every canonical field of the mapping names a column of the
\* file, two fields naming the same column included, the processed dataset
\* holds for every field the values of the field's mapped column; no field
\* is left with the default or the placeholder.
C28_ResolvedEntriesTakeEffect ==
    (Processed /\ \A f \in DOMAIN p_mapping : Resolved(f)) =>
        \A f \in DOMAIN p_mapping :
            /\ HasCol(p_out1.df, N(f))
            /\ \A r \in RowSet(p_out1.df) :
                  Cell(p_out1.df, r, N(f)) = Converted(f, SourceCell(r.idx, f))

(***************************************************************************)
(* Further claims about a session of the tabular dashboard (checked under  *)
(* Spec).                                                                  *)
(***************************************************************************)
\* C26: for every header of an uploaded table the cleaning of the settings
\* step (line 264) succeeds and gives the name that the cleaning inside
\* process_mapped_data (line 44) gives, so that every option offered names a
\* column of the cleaned frame.
C26_HeaderCleaningAgrees ==
    RunHadData =>
        /\ exception # "TypeError"
        /\ raw_columns_cleaned(ss_raw_df).k = "list"
        /\ raw_columns_cleaned(ss_raw_df).cols = CleanColumns(ss_raw_df).cols

\* the run got past the sidebar (lines 147-219) with a file in the uploader:
\* it ended normally or at line 264
SidebarDone == uploaded_file # NoFile /\ exception \in {"", "TypeError"}

\* C29: after the sidebar step of every run with a file in the uploader the
\* raw dataset of the session is the table loaded from that file, whatever
\* uploads, removals and uploads of the same file again came before.
C29_RawTracksUpload ==
    SidebarDone =>
        /\ load_data(uploaded_file).k = "frame"
        /\ ss_raw_df = load_data(uploaded_file).df
        /\ SameUpload(uploaded_file, ss_last_uploaded_file)

\* a later upload of the session, loaded
C29_Witness ==
    /\ SidebarDone
    /\ uploaded_file.id >= 2
    /\ ~DfEmpty(ss_raw_df)
    /\ ss_raw_df = uploaded_file.df

====
